---- MODULE Spec2Model ----
(***************************************************************************)
(* Model of focusManager.py: the focus-tree document (FocusTreeApp's       *)
(* focus_nodes dictionary), the handlers that change it (add, edit with    *)
(* rename and re-parenting, delete, arrow keys, script import/export), the *)
(* editor window, the position resolver and the script parser/serializer.  *)
(*                                                                         *)
(* A Python dict is modelled as the sequence of its values in insertion    *)
(* order; every value carries its dictionary key in the field `key`.       *)
(* A script text is modelled as the sequence of its tokens: maximal runs   *)
(* of non-blank characters other than the delimiters, and the delimiters   *)
(* "=", "{", "}", "#" and the line break NL. Blanks and tabs separate      *)
(* tokens and are not tokens themselves.                                   *)
(***************************************************************************)
EXTENDS Integers, Sequences, FiniteSets, TLC

VARIABLES
    focus_nodes,        \* FocusTreeApp.focus_nodes: dict id -> FocusNode
    selected_node_id,   \* FocusTreeApp.selected_node_id
    is_dirty,           \* FocusTreeApp.is_dirty
    editors,            \* FocusEditorWindow instances being waited for, innermost last
    txt_file,           \* content of the script file written by the last export
    exported_nodes,     \* the document txt_file was generated from (history)
    last_op,            \* what the last handler did (history)
    last_calc,          \* trace of the calculate_positions call SpecResolve makes (history)
    steps,              \* number of handlers run so far
    json_file,          \* content of the .json file written by the last save_file
    running,            \* root.mainloop() has not returned
    ext                 \* the external-editor monitoring of one FocusEditorWindow

vars == <<focus_nodes, selected_node_id, is_dirty, editors, txt_file, exported_nodes,
          last_op, last_calc, steps, json_file, running, ext>>

----------------------------------------------------------------------------
(* Program constants *)

GRID_SIZE == 240
DefaultCost == 10
DefaultIcon == "GFX_focus_generic_question_mark"
None == "None"                  \* Python's None (no id of the model is spelled so)
NL == "\n"
NoFile == <<"<no file>">>
NoJson == [kind |-> "none"]     \* no .json file has been written

(* Bounds of the model *)

MaxNodes == 3                   \* most entries of a document SpecResolve starts from
MaxCoord == 2                   \* arrow keys keep |x|, |y| within this

IdPool == <<"A", "B", "C", "D", "E">>
Ids == SubSeq(IdPool, 1, MaxNodes)  \* the identifiers of SpecResolve's entries
Dangling == "Z"                 \* an identifier no entry of SpecResolve has

----------------------------------------------------------------------------
(* Generic helpers *)

Range(s) == {s[i] : i \in DOMAIN s}


Count(s, v) == Cardinality({i \in DOMAIN s : s[i] = v})

RemoveAt(s, i) == SubSeq(s, 1, i - 1) \o SubSeq(s, i + 1, Len(s))

(* bool(v) is False for None and for the empty string *)
Falsy(v) == v = None \/ v = ""

----------------------------------------------------------------------------
(* The dictionary focus_nodes *)

Keys(nodes) == {nodes[i].key : i \in DOMAIN nodes}

IndexOf(nodes, k) == CHOOSE i \in DOMAIN nodes : nodes[i].key = k

Get(nodes, k) == nodes[IndexOf(nodes, k)]

(* d[k] = node: an existing key keeps its place, a new key goes last *)
DictSet(nodes, k, node) ==
    LET v == [node EXCEPT !.key = k]
    IN IF k \in Keys(nodes)
       THEN [nodes EXCEPT ![IndexOf(nodes, k)] = v]
       ELSE Append(nodes, v)

(* del d[k], for a key that is present *)
DictDel(nodes, k) == RemoveAt(nodes, IndexOf(nodes, k))

(* FocusNode(data): data is a record; absent keys are given as the record   *)
(* NodeDefaults updated by the caller                                      *)
NodeDefaults ==
    [key |-> "", id |-> "", icon |-> DefaultIcon, prerequisite |-> <<>>,
     relative_position_id |-> None, cost |-> DefaultCost, x |-> 0, y |-> 0,
     completion_reward |-> <<"{", NL, NL, "}">>, abs_x |-> 0, abs_y |-> 0]

FocusNode(data) == [data EXCEPT !.abs_x = 0, !.abs_y = 0]

(* the stored (persistent) fields of the document, without abs_x / abs_y *)
StoredOf(n) == [n EXCEPT !.abs_x = 0, !.abs_y = 0]
Stored(nodes) == [i \in DOMAIN nodes |-> StoredOf(nodes[i])]

----------------------------------------------------------------------------
(* calculate_positions *)

(* a test that takes only an absent or empty reference for a root *)
IsRootAbsent(nodes, n) == Falsy(n.relative_position_id)

IsRoot(nodes, n) ==
    Falsy(n.relative_position_id) \/ n.relative_position_id \notin Keys(nodes)

(* calculated_nodes and queue are the locals of the call; log (the writes  *)
(* of abs_x, abs_y), marks (calculated_nodes after each add) and dequeues  *)
(* record what the call did                                                *)
CalcStart(nodes) ==
    [nodes |-> nodes, calculated |-> {}, queue |-> <<>>, log |-> <<>>, marks |-> <<>>,
     dequeues |-> 0]

(* a write that also moves the entry to the grid cell of its position *)
WriteAbsAndCell(st, i, ax, ay, phase) ==
    [st EXCEPT !.nodes[i].abs_x = ax, !.nodes[i].abs_y = ay,
               !.nodes[i].x = ax, !.nodes[i].y = ay,
               !.log = Append(@, [key |-> st.nodes[i].key, phase |-> phase])]

(* one write of abs_x, abs_y of the entry at index i *)
WriteAbs(st, i, ax, ay, phase) ==
    [st EXCEPT !.nodes[i].abs_x = ax, !.nodes[i].abs_y = ay,
               !.log = Append(@, [key |-> st.nodes[i].key, phase |-> phase])]

(* an entry put on the queue without being added to calculated_nodes *)
MarkQueueOnly(st, i) ==
    [st EXCEPT !.queue = Append(@, i), !.marks = Append(@, st.calculated)]

MarkCalculated(st, i) ==
    [st EXCEPT !.calculated = @ \cup {st.nodes[i].id}, !.queue = Append(@, i),
               !.marks = Append(@, st.calculated \cup {st.nodes[i].id})]

(* first loop: the roots *)
RECURSIVE RootPass(_, _)
RootPass(st, i) ==
    IF i > Len(st.nodes) THEN st
    ELSE LET n == st.nodes[i]
         IN IF IsRoot(st.nodes, n)
            THEN RootPass(MarkCalculated(
                     WriteAbs(st, i, n.x * GRID_SIZE, n.y * GRID_SIZE, "root"), i), i + 1)
            ELSE RootPass(st, i + 1)

(* an inner loop that adds the child's x, y to the parent's position       *)
(* without the grid scale                                                  *)
RECURSIVE ChildScanUnscaled(_, _, _)
ChildScanUnscaled(st, p, j) ==
    IF j > Len(st.nodes) THEN st
    ELSE LET c == st.nodes[j]
             par == st.nodes[p]
         IN IF c.relative_position_id = par.id /\ c.id \notin st.calculated
            THEN ChildScanUnscaled(MarkCalculated(
                     WriteAbs(st, j, par.abs_x + c.x, par.abs_y + c.y, "child"), j),
                     p, j + 1)
            ELSE ChildScanUnscaled(st, p, j + 1)

(* the inner loop over the children of the dequeued parent p *)
RECURSIVE ChildScan(_, _, _)
ChildScan(st, p, j) ==
    IF j > Len(st.nodes) THEN st
    ELSE LET c == st.nodes[j]
             par == st.nodes[p]
         IN IF c.relative_position_id = par.id /\ c.id \notin st.calculated
            THEN ChildScan(MarkCalculated(
                     WriteAbs(st, j, par.abs_x + c.x * GRID_SIZE,
                                     par.abs_y + c.y * GRID_SIZE, "child"), j), p, j + 1)
            ELSE ChildScan(st, p, j + 1)

(* one pass over the entries in dictionary order in place of the queue: an *)
(* entry is placed when its parent has been placed before it               *)
RECURSIVE PropagateOnePass(_, _)
PropagateOnePass(st, head) ==
    IF head > Len(st.nodes) THEN st
    ELSE LET c == st.nodes[head]
         IN IF c.id \notin st.calculated /\ c.relative_position_id \in st.calculated
            THEN PropagateOnePass(MarkCalculated(
                     WriteAbs(st, head,
                              Get(st.nodes, c.relative_position_id).abs_x + c.x * GRID_SIZE,
                              Get(st.nodes, c.relative_position_id).abs_y + c.y * GRID_SIZE,
                              "child"), head), head + 1)
            ELSE PropagateOnePass(st, head + 1)

(* the while loop over the queue *)
RECURSIVE Propagate(_, _)
Propagate(st, head) ==
    IF head > Len(st.queue) THEN st
    ELSE Propagate(ChildScan([st EXCEPT !.dequeues = @ + 1], st.queue[head], 1), head + 1)

(* a last loop that leaves the entries not calculated as they are *)
FallbackSweepNone(st, i) == st

(* a last loop that places an entry not calculated relative to its parent *)
RECURSIVE FallbackSweepRelative(_, _)
FallbackSweepRelative(st, i) ==
    IF i > Len(st.nodes) THEN st
    ELSE LET n == st.nodes[i]
             par == Get(st.nodes, n.relative_position_id)
         IN IF n.id \notin st.calculated
            THEN FallbackSweepRelative(
                     WriteAbs(st, i, par.abs_x + n.x * GRID_SIZE,
                                     par.abs_y + n.y * GRID_SIZE, "fallback"), i + 1)
            ELSE FallbackSweepRelative(st, i + 1)

(* last loop: whatever was not calculated *)
RECURSIVE FallbackSweep(_, _)
FallbackSweep(st, i) ==
    IF i > Len(st.nodes) THEN st
    ELSE LET n == st.nodes[i]
         IN IF n.id \notin st.calculated
            THEN FallbackSweep(
                     WriteAbs(st, i, n.x * GRID_SIZE, n.y * GRID_SIZE, "fallback"), i + 1)
            ELSE FallbackSweep(st, i + 1)

CalculatePositions(nodes) ==
    FallbackSweep(Propagate(RootPass(CalcStart(nodes), 1), 1), 1)

CalcTrace(st) == [log |-> st.log, dequeues |-> st.dequeues]

----------------------------------------------------------------------------
(* Numbers in script text: str(int) and int(str) *)

MaxNumeral == 50                \* int() of the model reads the numerals of -50..50

Digit == <<"0", "1", "2", "3", "4", "5", "6", "7", "8", "9">>

RECURSIVE Str(_)
Str(n) ==
    IF n < 0 THEN "-" \o Str(-n)
    ELSE IF n < 10 THEN Digit[n + 1]
    ELSE Str(n \div 10) \o Digit[(n % 10) + 1]

Numerals == [n \in (-MaxNumeral)..MaxNumeral |-> Str(n)]

IsIntTok(t) == \E n \in DOMAIN Numerals : Numerals[n] = t

ParseInt(t) == CHOOSE n \in DOMAIN Numerals : Numerals[n] = t

(* a value written with an f-string: the empty string leaves no token *)
Tok(s) == IF s = "" THEN <<>> ELSE <<s>>

RECURSIVE JoinSp(_)
JoinSp(toks) ==
    IF toks = <<>> THEN ""
    ELSE IF Len(toks) = 1 THEN toks[1]
    ELSE toks[1] \o " " \o JoinSp(Tail(toks))

(* the least member of a non-empty set of indices *)
MinOf(S) == CHOOSE x \in S : \A y \in S : x <= y

MaxOf(S) == CHOOSE x \in S : \A y \in S : y <= x

(* the tokens at the indices where keep holds, in their order *)
Idx(toks) == [i \in DOMAIN toks |-> i]

KeepWhere(toks, keep(_)) ==
    LET idx == SelectSeq(Idx(toks), keep)
    IN [k \in DOMAIN idx |-> toks[idx[k]]]

(* str.strip() of a text: leading and trailing line breaks go *)
Strip(toks) ==
    LET solid == {i \in DOMAIN toks : toks[i] # NL}
    IN IF solid = {} THEN <<>> ELSE SubSeq(toks, MinOf(solid), MaxOf(solid))

----------------------------------------------------------------------------
(* FocusNode.to_hoi4_format and _generate_script_string *)

RECURSIVE FocusLines(_)
FocusLines(prereq) ==
    IF prereq = <<>> THEN <<>>
    ELSE <<"focus", "=">> \o Tok(Head(prereq)) \o <<NL>> \o FocusLines(Tail(prereq))

(* one one-line sub-block per reference *)
RECURSIVE PrerequisiteTextPerReference(_)
PrerequisiteTextPerReference(prereq) ==
    IF prereq = <<>> THEN <<>>
    ELSE <<"prerequisite", "=", "{", "focus", "=">> \o Tok(Head(prereq)) \o <<"}", NL>>
         \o PrerequisiteTextPerReference(Tail(prereq))

PrerequisiteText(prereq) ==
    IF prereq = <<>> THEN <<>>
    ELSE IF Len(prereq) = 1
    THEN <<"prerequisite", "=", "{", "focus", "=">> \o Tok(prereq[1]) \o <<"}", NL>>
    ELSE <<"prerequisite", "=", "{", NL>> \o FocusLines(prereq) \o <<"}", NL>>

RewardText(reward) ==
    IF Strip(reward) # <<>>
    THEN <<"completion_reward", "=">> \o Strip(reward)
    ELSE <<"completion_reward", "=", "{", "}">>

ToHoi4Format(n) ==
    <<"focus", "=", "{", NL>>
    \o <<"id", "=">> \o Tok(n.id) \o <<NL>>
    \o <<"icon", "=">> \o Tok(n.icon) \o <<NL>>
    \o <<"cost", "=", Str(n.cost), NL>>
    \o PrerequisiteText(n.prerequisite)
    \o (IF Falsy(n.relative_position_id) THEN <<>>
        ELSE <<"relative_position_id", "=", n.relative_position_id, NL>>)
    \o <<"x", "=", Str(n.x), NL>>
    \o <<"y", "=", Str(n.y), NL>>
    \o RewardText(n.completion_reward) \o <<NL>>
    \o <<"}">>

(* the entries in dictionary order *)
UnsortedNodes(nodes) == nodes

(* the sort key (n.y, n.x), compared as Python compares tuples *)
KeyLess(a, b) == a.y < b.y \/ (a.y = b.y /\ a.x < b.x)

(* sorted(): stable, so entries with equal keys keep the dict order *)
RECURSIVE InsertSorted(_, _)
InsertSorted(sorted, n) ==
    IF sorted = <<>> THEN <<n>>
    ELSE IF KeyLess(n, Head(sorted)) THEN <<n>> \o sorted
    ELSE <<Head(sorted)>> \o InsertSorted(Tail(sorted), n)

RECURSIVE SortedNodes(_)
SortedNodes(nodes) ==
    IF nodes = <<>> THEN <<>>
    ELSE InsertSorted(SortedNodes(SubSeq(nodes, 1, Len(nodes) - 1)), nodes[Len(nodes)])

RECURSIVE EmitAll(_)
EmitAll(nodes) ==
    IF nodes = <<>> THEN <<>>
    ELSE ToHoi4Format(Head(nodes)) \o <<NL, NL>> \o EmitAll(Tail(nodes))

(* None for an empty document *)
GenerateScriptString(nodes) ==
    IF nodes = <<>> THEN NoFile
    ELSE <<"focus_tree", "=", "{", NL>> \o EmitAll(SortedNodes(nodes)) \o <<"}">>

----------------------------------------------------------------------------
(* _find_matching_brace, _parse_focus_block, _parse_hoi4_txt               *)
(* The scans of the source (regular expression searches, for loops over    *)
(* characters and lines) are written over token indices.                   *)

(* re.sub(r'#.*', '', text): a "#" and the rest of its line go *)
InComment(toks, i) ==
    \E j \in 1..i : toks[j] = "#" /\ \A k \in j..i : toks[k] # NL

StripComments(toks) == KeepWhere(toks, LAMBDA i : ~InComment(toks, i))

(* \s* : the index of the first token after i that is no line break, 0 if none *)
NextTok(toks, i) ==
    LET after == {j \in (i + 1)..Len(toks) : toks[j] # NL}
    IN IF after = {} THEN 0 ELSE MinOf(after)

(* \bkw\s*=\s*\{ matched at token i: the index of its "{", else 0 *)
OpensAt(toks, kw, i) ==
    IF toks[i] # kw THEN 0
    ELSE LET e == NextTok(toks, i)
         IN IF e = 0 THEN 0
            ELSE IF toks[e] # "=" THEN 0
            ELSE LET b == NextTok(toks, e)
                 IN IF b = 0 THEN 0
                    ELSE IF toks[b] # "{" THEN 0 ELSE b

NoMatch == [start |-> 0, open |-> 0, close |-> 0]

(* re.search of \bkw\s*=\s*\{ from token i on: the leftmost match *)
FindOpen(toks, kw, i) ==
    LET Leftmost(starts) ==
            IF starts = {} THEN NoMatch
            ELSE [start |-> MinOf(starts), open |-> OpensAt(toks, kw, MinOf(starts)),
                  close |-> 0]
    IN Leftmost({j \in i..Len(toks) : OpensAt(toks, kw, j) # 0})

FirstClose(toks, i) ==
    LET closes == {j \in i..Len(toks) : toks[j] = "}"}
    IN IF closes = {} THEN 0 ELSE MinOf(closes)

(* re.search of \bkw\s*=\s*\{([\s\S]*?)\} from token i on: the body ends at *)
(* the first "}" after the "{", whatever braces the body opens             *)
SubBlockMatch(toks, kw, i) ==
    LET Closed(m, c) == IF c = 0 THEN NoMatch ELSE [m EXCEPT !.close = c]
        Body(m) == IF m.start = 0 THEN NoMatch ELSE Closed(m, FirstClose(toks, m.open + 1))
    IN Body(FindOpen(toks, kw, i))

Group1(toks, m) == SubSeq(toks, m.open + 1, m.close - 1)

CutMatch(toks, m) == SubSeq(toks, 1, m.start - 1) \o SubSeq(toks, m.close + 1, Len(toks))

(* brace_level after the character at index i, counted from start_index *)
BraceLevel(toks, start_index, i) ==
    Cardinality({k \in start_index..i : toks[k] = "{"})
    - Cardinality({k \in start_index..i : toks[k] = "}"})

(* the first "}" that brings brace_level to 0, or -1 *)
FindMatchingBrace(toks, start_index) ==
    LET ends == {i \in start_index..Len(toks) :
                    toks[i] = "}" /\ BraceLevel(toks, start_index, i) = 0}
    IN IF ends = {} THEN -1 ELSE MinOf(ends)

(* name\s*=\s*(-?\d+) matched at token i of content *)
AssignsInt(content, name, i) ==
    LET e == NextTok(content, i)
        v == IF e = 0 THEN 0 ELSE NextTok(content, e)
    IN /\ content[i] = name
       /\ e # 0
       /\ v # 0
       /\ content[e] = "="
       /\ IsIntTok(content[v])

(* re.search(r'x\s*=\s*(-?\d+)', content): the number, or 0 without a match *)
OffsetValue(content, name) ==
    LET Group(at) == IF at = {} THEN 0
                     ELSE ParseInt(content[NextTok(content, NextTok(content, MinOf(at)))])
    IN Group({i \in DOMAIN content : AssignsInt(content, name, i)})

(* \w+ matches a whole token unless it is punctuation or carries a minus sign *)
IsWord(t) ==
    /\ t \notin {"{", "}", "=", "#", NL}
    /\ ~(IsIntTok(t) /\ ParseInt(t) < 0)

(* focus\s*=\s*(\w+) matched at token i of content *)
NamesFocus(content, i) ==
    LET e == NextTok(content, i)
        v == IF e = 0 THEN 0 ELSE NextTok(content, e)
    IN /\ content[i] = "focus"
       /\ e # 0
       /\ v # 0
       /\ content[e] = "="
       /\ IsWord(content[v])

(* re.findall(r'focus\s*=\s*(\w+)', content): one step per match *)
RECURSIVE FindFocuses(_, _)
FindFocuses(content, i) ==
    LET Group(v) == <<content[v]>> \o FindFocuses(content, v + 1)
        Match(at) == IF at = {} THEN <<>>
                     ELSE Group(NextTok(content, NextTok(content, MinOf(at))))
    IN Match({j \in i..Len(content) : NamesFocus(content, j)})

(* list(re.finditer(prerequisite ...)): the matches from left to right *)
RECURSIVE PrereqMatches(_, _)
PrereqMatches(toks, i) ==
    LET Matches(m) == IF m.start = 0 THEN <<>>
                      ELSE <<m>> \o PrereqMatches(toks, m.close + 1)
    IN Matches(SubBlockMatch(toks, "prerequisite", i))

(* a loop that reads the last prerequisite block only *)
PrereqLoopLast(st, matches, k) ==
    IF k < 1 THEN st
    ELSE [st EXCEPT !.text = CutMatch(st.text, matches[k]),
                    !.all = st.all \o FindFocuses(Group1(st.text, matches[k]), 1)]

(* the loop over reversed(prereq_matches): st = [text, all] *)
RECURSIVE PrereqLoop(_, _, _)
PrereqLoop(st, matches, k) ==
    IF k < 1 THEN st
    ELSE PrereqLoop([st EXCEPT !.text = CutMatch(st.text, matches[k]),
                               !.all = st.all \o FindFocuses(Group1(st.text, matches[k]), 1)],
                    matches, k - 1)

(* list(set(xs)): the members in the order the hash table gives, which the *)
(* caller passes as a sequence hash_order holding every word once          *)
ListOfSet(xs, hash_order) == SelectSeq(hash_order, LAMBDA t : t \in Range(xs))

(* text.split('\n') *)
SplitLines(toks) ==
    LET breaks == SelectSeq(Idx(toks), LAMBDA i : toks[i] = NL)
        n == Len(breaks)
    IN [k \in 1..(n + 1) |->
           SubSeq(toks, IF k = 1 THEN 1 ELSE breaks[k - 1] + 1,
                        IF k = n + 1 THEN Len(toks) ELSE breaks[k] - 1)]

(* a line the loop over the lines reads as key = value: not skipped for a  *)
(* brace and split by "=" into two parts                                   *)
IsPair(line) ==
    /\ line # <<>>
    /\ "{" \notin Range(line)
    /\ "}" \notin Range(line)
    /\ Count(line, "=") = 1

EqAt(line) == CHOOSE i \in DOMAIN line : line[i] = "="

LineKey(line) == JoinSp(SubSeq(line, 1, EqAt(line) - 1))

LineValue(line) == SubSeq(line, EqAt(line) + 1, Len(line))

(* int(value) raises ValueError for anything but one numeral *)
IsIntValue(value_toks) == Len(value_toks) = 1 /\ IsIntTok(value_toks[1])

(* the lines that assign the string field key / the number field key *)
StrLines(lines, key) ==
    {k \in DOMAIN lines : IsPair(lines[k]) /\ LineKey(lines[k]) = key}

IntLines(lines, key) ==
    {k \in StrLines(lines, key) : IsIntValue(LineValue(lines[k]))}

(* the loop assigns line after line, so the last assigning line decides *)
StrField(lines, key, default) ==
    IF StrLines(lines, key) = {} THEN default
    ELSE JoinSp(LineValue(lines[MaxOf(StrLines(lines, key))]))

IntField(lines, key, default) ==
    IF IntLines(lines, key) = {} THEN default
    ELSE ParseInt(LineValue(lines[MaxOf(IntLines(lines, key))])[1])

BlockDefaults ==
    [id |-> "", has_id |-> FALSE, icon |-> DefaultIcon, prerequisite |-> <<>>,
     relative_position_id |-> None, cost |-> DefaultCost, x |-> 0, y |-> 0,
     completion_reward |-> <<"{", "}">>]

(* The steps of _parse_focus_block on st = [text, offset_x, offset_y,       *)
(* completion_reward, all]: text is block_text as the steps cut it down,   *)
(* all is all_prerequisites.                                               *)

(* the offset sub-block is read and removed from the text *)
ReadOffset(st) ==
    LET Read(om) ==
            IF om.start = 0 THEN st
            ELSE [st EXCEPT !.text = CutMatch(st.text, om),
                            !.offset_x = OffsetValue(Group1(st.text, om), "x"),
                            !.offset_y = OffsetValue(Group1(st.text, om), "y")]
    IN Read(SubBlockMatch(st.text, "offset", 1))

(* the completion_reward sub-block is read and removed from the text *)
ReadReward(st) ==
    LET Read(rm) ==
            IF rm.start = 0 THEN st
            ELSE [st EXCEPT !.text = CutMatch(st.text, rm),
                            !.completion_reward =
                                <<"{", NL>> \o Strip(Group1(st.text, rm)) \o <<NL, "}">>]
    IN Read(SubBlockMatch(st.text, "completion_reward", 1))

(* the prerequisite sub-blocks are read and removed from the text *)
ReadPrerequisites(st) ==
    LET Loop(prereq_matches) == PrereqLoop(st, prereq_matches, Len(prereq_matches))
    IN Loop(PrereqMatches(st.text, 1))

(* the loop over the lines that are left, and the offsets added to x and y; *)
(* has_id is 'id' in data, and the keys cost and relative_position_id,      *)
(* when absent, get FocusNode's default                                     *)
ReadLines(st) ==
    LET Fields(lines) ==
            [id |-> StrField(lines, "id", ""),
             has_id |-> StrLines(lines, "id") # {},
             icon |-> StrField(lines, "icon", BlockDefaults.icon),
             prerequisite |-> st.all,
             relative_position_id |-> StrField(lines, "relative_position_id", None),
             cost |-> IntField(lines, "cost", DefaultCost),
             x |-> IntField(lines, "x", BlockDefaults.x) + st.offset_x,
             y |-> IntField(lines, "y", BlockDefaults.y) + st.offset_y,
             completion_reward |-> st.completion_reward]
    IN Fields(SplitLines(st.text))

(* the data dictionary of one focus block before line 1236 turns the list  *)
(* all_prerequisites into list(set(...))                                   *)
ScanFocusBlock(block_text) ==
    ReadLines(ReadPrerequisites(ReadReward(ReadOffset(
        [text |-> StripComments(block_text), offset_x |-> 0, offset_y |-> 0,
         completion_reward |-> BlockDefaults.completion_reward, all |-> <<>>]))))

NodeOfData(data) ==
    FocusNode([key |-> data.id, id |-> data.id, icon |-> data.icon,
               prerequisite |-> data.prerequisite,
               relative_position_id |-> data.relative_position_id,
               cost |-> data.cost, x |-> data.x, y |-> data.y,
               completion_reward |-> data.completion_reward,
               abs_x |-> 0, abs_y |-> 0])

(* a loop that gives up what it has read when a brace has no match *)
RECURSIVE ScanLoopDropAll(_, _, _)
ScanLoopDropAll(text, cursor, st) ==
    LET Store(data, end_brace) ==
            ScanLoopDropAll(text, end_brace + 1,
                            IF data.has_id
                            THEN [st EXCEPT !.nodes = DictSet(@, data.id, NodeOfData(data))]
                            ELSE st)
        Block(start_brace, end_brace) ==
            IF end_brace = -1 THEN [nodes |-> <<>>, warning |-> TRUE]
            ELSE Store(ScanFocusBlock(SubSeq(text, start_brace + 1, end_brace - 1)),
                       end_brace)
        Match(m) ==
            IF m.start = 0 THEN st
            ELSE Block(m.open, FindMatchingBrace(text, m.open))
    IN Match(FindOpen(text, "focus", cursor))

(* a loop that leaves an entry as the first block with its id states it *)
RECURSIVE ScanLoopKeepFirst(_, _, _)
ScanLoopKeepFirst(text, cursor, st) ==
    LET Store(data, end_brace) ==
            ScanLoopKeepFirst(text, end_brace + 1,
                              IF data.has_id /\ data.id \notin Keys(st.nodes)
                              THEN [st EXCEPT !.nodes = DictSet(@, data.id, NodeOfData(data))]
                              ELSE st)
        Block(start_brace, end_brace) ==
            IF end_brace = -1 THEN [st EXCEPT !.warning = TRUE]
            ELSE Store(ScanFocusBlock(SubSeq(text, start_brace + 1, end_brace - 1)),
                       end_brace)
        Match(m) ==
            IF m.start = 0 THEN st
            ELSE Block(m.open, FindMatchingBrace(text, m.open))
    IN Match(FindOpen(text, "focus", cursor))

(* the while loop of _parse_hoi4_txt, one step per block: st = [nodes, warning] *)
RECURSIVE ScanLoop(_, _, _)
ScanLoop(text, cursor, st) ==
    LET Store(data, end_brace) ==
            ScanLoop(text, end_brace + 1,
                     IF data.has_id
                     THEN [st EXCEPT !.nodes = DictSet(@, data.id, NodeOfData(data))]
                     ELSE st)
        Block(start_brace, end_brace) ==
            IF end_brace = -1 THEN [st EXCEPT !.warning = TRUE]
            ELSE Store(ScanFocusBlock(SubSeq(text, start_brace + 1, end_brace - 1)),
                       end_brace)
        Match(m) ==
            IF m.start = 0 THEN st
            ELSE Block(m.open, FindMatchingBrace(text, m.open))
    IN Match(FindOpen(text, "focus", cursor))

(* _parse_hoi4_txt with every entry still holding all_prerequisites *)
ScanHoi4Txt(text_content) ==
    ScanLoop(StripComments(text_content), 1, [nodes |-> <<>>, warning |-> FALSE])

(* line 1236 for every entry read: nothing reads the list in between, so   *)
(* the conversion is applied to the blocks after the scan                  *)
OrderPrerequisites(scanned, hash_order) ==
    [scanned EXCEPT !.nodes =
        [i \in DOMAIN scanned.nodes |->
            [scanned.nodes[i] EXCEPT !.prerequisite = ListOfSet(@, hash_order)]]]

ParseHoi4Txt(text_content, hash_order) ==
    OrderPrerequisites(ScanHoi4Txt(text_content), hash_order)

----------------------------------------------------------------------------
(* Handlers of the main window that read and write script files *)

(* the history variables before any handler has run *)
NoCalc ==
    [called |-> FALSE, before |-> <<>>, log |-> <<>>, queue |-> <<>>, marks |-> <<>>,
     dequeues |-> 0]

NoOp == [name |-> "init"]

(* draw_tree: the canvas is not modelled, calculate_positions is *)
DrawTree(nodes) == CalculatePositions(nodes).nodes

(* the script files an import can be pointed at, besides the exported one *)
SingleLineText ==
    <<"focus", "=", "{", "id", "=", "A", "cost", "=", "5",
      "x", "=", "0", "y", "=", "0", "}", NL,
      "focus", "=", "{", "id", "=", "B", "relative_position_id", "=", "A",
      "offset", "=", "{", "x", "=", "1", "y", "=", "0", "}",
      "prerequisite", "=", "{", "focus", "=", "A", "}", "}", NL>>

TwoBlocksText ==
    <<"focus", "=", "{", NL, "id", "=", "A", NL, "}", NL,
      "focus", "=", "{", NL, "id", "=", "C", NL, "x", "=", "1", NL, "}", NL,
      "focus", "=", "{", NL, "id", "=", "B", NL,
      "prerequisite", "=", "{", "focus", "=", "A", "}", NL,
      "prerequisite", "=", "{", "focus", "=", "C", "}", NL,
      "y", "=", "1", NL, "}", NL>>

DanglingText ==
    <<"focus", "=", "{", NL, "id", "=", "A", NL, "icon", "=", "GFX_goal", NL, "}", NL,
      "focus", "=", "{", NL, "id", "=", "B", NL,
      "prerequisite", "=", "{", NL, "focus", "=", "A", NL, "focus", "=", "C", NL, "}", NL,
      "relative_position_id", "=", "A", NL, "y", "=", "1", NL, "}", NL>>

SampleNames == {"single_line", "two_blocks", "dangling"}

SampleText(name) ==
    CASE name = "single_line" -> SingleLineText
      [] name = "two_blocks" -> TwoBlocksText
      [] name = "dangling" -> DanglingText

SampleScans == [name \in SampleNames |-> ScanHoi4Txt(SampleText(name))]

(* the words that occur as prerequisites, and the orders a set of them can *)
(* be listed in                                                             *)
Words == {"A", "B", "C"}

HashOrders ==
    {h \in [1..Cardinality(Words) -> Words] : \A i, j \in DOMAIN h : i # j => h[i] # h[j]}

(* export_hoi4_txt; chosen is FALSE when the file dialog is cancelled *)
ExportHoi4Txt(chosen) ==
    \E script_string \in {GenerateScriptString(focus_nodes)} :
       /\ IF script_string = NoFile \/ ~chosen
          THEN /\ last_op' = [name |-> "export_nothing"]
               /\ UNCHANGED <<txt_file, exported_nodes>>
          ELSE /\ txt_file' = script_string
               /\ exported_nodes' = focus_nodes
               /\ last_op' = [name |-> "export"]
       /\ UNCHANGED <<focus_nodes, selected_node_id, is_dirty, editors, last_calc>>

(* import_hoi4_txt of the file named file ("exported": the file the last   *)
(* export wrote); discard is the answer to the unsaved-changes question,   *)
(* and the order of each list(set(...)) is any of HashOrders; warning is   *)
(* whether the warning of _parse_hoi4_txt was shown                        *)
ImportHoi4Txt(file, discard) ==
    /\ file = "exported" => txt_file # NoFile
    /\ \E scanned \in {IF file = "exported" THEN ScanHoi4Txt(txt_file)
                        ELSE SampleScans[file]} :
       /\ IF is_dirty /\ ~discard
          THEN /\ last_op' = [name |-> "import_declined"]
               /\ UNCHANGED <<focus_nodes, selected_node_id, is_dirty>>
          ELSE IF scanned.nodes = <<>>
          THEN /\ last_op' = [name |-> "import_nothing", file |-> file,
                              warning |-> scanned.warning]
               /\ UNCHANGED <<focus_nodes, selected_node_id, is_dirty>>
          ELSE /\ \E hash_order \in HashOrders :
                     focus_nodes' = DrawTree(OrderPrerequisites(scanned, hash_order).nodes)
               /\ selected_node_id' = None
               /\ is_dirty' = FALSE
               /\ last_op' = [name |-> "import", file |-> file,
                              warning |-> scanned.warning]
       /\ UNCHANGED <<editors, txt_file, exported_nodes, last_calc>>

----------------------------------------------------------------------------
(* FocusEditorWindow and the handlers that wait for it.                    *)
(* The window is not modal: the handler that opened it runs a nested event *)
(* loop in wait_window, so every handler of the main window stays          *)
(* available, and a handler continues after wait_window only when the      *)
(* windows opened after its own are closed too.                            *)

MaxEditors == 2                 \* most editor windows open at a time
MaxEntries == 2                 \* an add is started while the document is smaller

NoResult == [id |-> None]

(* sorted(ids): the ids are single letters, ordered as in IdPool *)
SortedIds(ids) == SelectSeq(IdPool, LAMBDA t : t \in ids)

(* prereq_vars: one checkbox per existing id but the edited one, sorted *)
PrereqIds(existing_ids, original_id) ==
    SortedIds(Range(existing_ids) \ {original_id})

(* FocusEditorWindow.__init__ for a new entry *)
NewEditor(nodes, initial_x, initial_y) ==
    [kind |-> "add",
     existing_ids |-> [i \in DOMAIN nodes |-> nodes[i].key],
     original_id |-> None,
     loaded |-> [id |-> "", cost |-> DefaultCost, relative_position_id |-> "",
                 x |-> initial_x, y |-> initial_y, prerequisite |-> {},
                 completion_reward |-> <<>>],
     original_abs_x |-> 0, original_abs_y |-> 0,
     original_relative_position_id |-> None,
     closed |-> FALSE, result |-> NoResult]

(* FocusEditorWindow.__init__ and load_data for the entry node_to_edit, and *)
(* what edit_selected_node remembers of it                                  *)
EditEditor(nodes, node_to_edit) ==
    [kind |-> "edit",
     existing_ids |-> [i \in DOMAIN nodes |-> nodes[i].key],
     original_id |-> node_to_edit.id,
     loaded |-> [id |-> node_to_edit.id, cost |-> node_to_edit.cost,
                 relative_position_id |->
                     IF Falsy(node_to_edit.relative_position_id) THEN ""
                     ELSE node_to_edit.relative_position_id,
                 x |-> node_to_edit.x, y |-> node_to_edit.y,
                 prerequisite |->
                     {fid \in Keys(nodes) \ {node_to_edit.id} :
                         fid \in Range(node_to_edit.prerequisite)},
                 completion_reward |-> node_to_edit.completion_reward],
     original_abs_x |-> node_to_edit.abs_x, original_abs_y |-> node_to_edit.abs_y,
     original_relative_position_id |-> node_to_edit.relative_position_id,
     closed |-> FALSE, result |-> NoResult]

(* the data dictionary save builds from the form *)
FormData(e, focus_id, relative_id, x, y, checked) ==
    [id |-> focus_id, cost |-> e.loaded.cost,
     relative_position_id |-> IF relative_id = "" THEN None ELSE relative_id,
     x |-> x, y |-> y,
     prerequisite |-> SelectSeq(PrereqIds(e.existing_ids, e.original_id),
                                LAMBDA fid : fid \in checked),
     completion_reward |-> Strip(e.loaded.completion_reward)]

(* a node built from a dictionary whose id is not read *)
NodeOfResultNoId(result) ==
    FocusNode([NodeDefaults EXCEPT !.key = result.id,
                                   !.prerequisite = result.prerequisite,
                                   !.relative_position_id = result.relative_position_id,
                                   !.cost = result.cost, !.x = result.x, !.y = result.y,
                                   !.completion_reward = result.completion_reward])

(* FocusNode(editor.result): the dictionary has no icon *)
NodeOfResult(result) ==
    FocusNode([NodeDefaults EXCEPT !.key = result.id, !.id = result.id,
                                   !.prerequisite = result.prerequisite,
                                   !.relative_position_id = result.relative_position_id,
                                   !.cost = result.cost, !.x = result.x, !.y = result.y,
                                   !.completion_reward = result.completion_reward])

(* the state the handlers share: app = [focus_nodes, selected_node_id,     *)
(* is_dirty, op]; op describes the last result that was applied            *)
AppState == [focus_nodes |-> focus_nodes, selected_node_id |-> selected_node_id,
             is_dirty |-> is_dirty, op |-> [name |-> "closed"]]

(* add_focus_node after wait_window *)
ApplyAdd(app, e) ==
    IF e.result = NoResult THEN app
    ELSE [focus_nodes |-> DrawTree(DictSet(app.focus_nodes, e.result.id,
                                           NodeOfResult(e.result))),
          selected_node_id |-> e.result.id,
          is_dirty |-> TRUE,
          op |-> [name |-> "add", id |-> e.result.id,
                  fresh |-> e.result.id \notin Keys(app.focus_nodes)]]

(* round((a - b) / GRID_SIZE) with Python's rounding of halves to even *)
RoundDiv(n) ==
    LET q == n \div GRID_SIZE
        r == n % GRID_SIZE
    IN IF 2 * r < GRID_SIZE THEN q
       ELSE IF 2 * r > GRID_SIZE THEN q + 1
       ELSE IF q % 2 = 0 THEN q ELSE q + 1

(* the loop of edit_selected_node that rewrites the references to old_id *)
RenameReferences(nodes, old_id, new_id) ==
    [i \in DOMAIN nodes |->
        [nodes[i] EXCEPT
            !.relative_position_id = IF @ = old_id THEN new_id ELSE @,
            !.prerequisite = [j \in DOMAIN @ |-> IF @[j] = old_id THEN new_id ELSE @[j]]]]

(* edit_selected_node after wait_window. selected_node_id is read again   *)
(* here; del raises KeyError when it is no key, which ends the handler     *)
(* with the references already rewritten                                   *)
ApplyEdit(app, e) ==
    LET new_id == e.result.id
        old_id == app.selected_node_id
        renamed == old_id # new_id
        new_rel == e.result.relative_position_id
        moved == new_rel # e.original_relative_position_id
        has_parent == ~Falsy(new_rel) /\ new_rel \in Keys(app.focus_nodes)
        Store(nodes2, result) ==
            IF renamed /\ old_id \notin Keys(nodes2)
            THEN [app EXCEPT !.focus_nodes = nodes2,
                             !.op = [name |-> "edit_failed", old_id |-> old_id,
                                     new_id |-> new_id]]
            ELSE [focus_nodes |->
                      DrawTree(DictSet(IF renamed THEN DictDel(nodes2, old_id) ELSE nodes2,
                                       new_id, NodeOfResult(result))),
                  selected_node_id |-> new_id,
                  is_dirty |-> TRUE,
                  op |-> [name |-> IF ~renamed THEN "edit"
                                   ELSE IF old_id = e.original_id
                                           /\ new_id \notin Keys(app.focus_nodes)
                                   THEN "rename" ELSE "replace",
                          old_id |-> old_id, new_id |-> new_id]]
        Cascade(nodes1, result) ==
            Store(IF renamed THEN RenameReferences(nodes1, old_id, new_id) ELSE nodes1,
                  result)
        Reparent(nodes1) ==
            Cascade(nodes1,
                    [e.result EXCEPT
                        !.x = RoundDiv(e.original_abs_x
                                       - IF has_parent THEN Get(nodes1, new_rel).abs_x ELSE 0),
                        !.y = RoundDiv(e.original_abs_y
                                       - IF has_parent THEN Get(nodes1, new_rel).abs_y ELSE 0)])
    IN IF e.result = NoResult THEN app
       ELSE IF ~moved THEN Cascade(app.focus_nodes, e.result)
       ELSE Reparent(IF has_parent THEN DrawTree(app.focus_nodes) ELSE app.focus_nodes)

ApplyResult(app, e) == IF e.kind = "add" THEN ApplyAdd(app, e) ELSE ApplyEdit(app, e)

(* the handlers whose windows are closed return, innermost first *)
RECURSIVE Unwind(_, _)
Unwind(app, eds) ==
    IF eds = <<>> THEN [app |-> app, editors |-> eds]
    ELSE IF ~eds[Len(eds)].closed THEN [app |-> app, editors |-> eds]
    ELSE Unwind(ApplyResult(app, eds[Len(eds)]), SubSeq(eds, 1, Len(eds) - 1))

(* add_focus_node up to wait_window *)
AddFocusNode ==
    /\ Len(editors) < MaxEditors
    /\ Len(focus_nodes) < MaxEntries
    /\ editors' = Append(editors, NewEditor(focus_nodes, 0, 0))
    /\ last_op' = [name |-> "open_add"]
    /\ UNCHANGED <<focus_nodes, selected_node_id, is_dirty, txt_file, exported_nodes,
                   last_calc>>

(* add_focus_node_at_clicked_position up to wait_window *)
AddFocusNodeAtClickedPosition(initial_x, initial_y) ==
    /\ Len(editors) < MaxEditors
    /\ Len(focus_nodes) < MaxEntries
    /\ editors' = Append(editors, NewEditor(focus_nodes, initial_x, initial_y))
    /\ last_op' = [name |-> "open_add"]
    /\ UNCHANGED <<focus_nodes, selected_node_id, is_dirty, txt_file, exported_nodes,
                   last_calc>>

(* edit_selected_node up to wait_window *)
EditSelectedNode ==
    /\ Len(editors) < MaxEditors
    /\ IF Falsy(selected_node_id) \/ selected_node_id \notin Keys(focus_nodes)
       THEN /\ last_op' = [name |-> "edit_nothing"]
            /\ UNCHANGED <<focus_nodes, editors>>
       ELSE LET nodes == DrawTree(focus_nodes)
            IN /\ focus_nodes' = nodes
               /\ editors' = Append(editors, EditEditor(nodes, Get(nodes, selected_node_id)))
               /\ last_op' = [name |-> "open_edit"]
    /\ UNCHANGED <<selected_node_id, is_dirty, txt_file, exported_nodes, last_calc>>

(* FocusEditorWindow.save of the i-th window with the form filled in, and  *)
(* the handlers that continue when the window is destroyed                 *)
EditorSave(i, focus_id, relative_id, x, y, checked) ==
    /\ i \in DOMAIN editors
    /\ ~editors[i].closed
    /\ \E e \in {editors[i]} :
       \E u \in {Unwind(AppState,
                        [editors EXCEPT
                            ![i].closed = TRUE,
                            ![i].result = FormData(e, focus_id, relative_id, x, y, checked)])} :
          IF focus_id = ""
             \/ (focus_id # e.original_id /\ focus_id \in Range(e.existing_ids))
          THEN /\ last_op' = [name |-> "save_rejected", id |-> focus_id,
                              original_id |-> e.original_id]
               /\ UNCHANGED <<focus_nodes, selected_node_id, is_dirty, editors>>
          ELSE /\ focus_nodes' = u.app.focus_nodes
               /\ selected_node_id' = u.app.selected_node_id
               /\ is_dirty' = u.app.is_dirty
               /\ editors' = u.editors
               /\ last_op' = [name |-> "save", id |-> focus_id,
                              original_id |-> e.original_id, applied |-> u.app.op]
    /\ UNCHANGED <<txt_file, exported_nodes, last_calc>>

(* FocusEditorWindow.cancel or closing the i-th window *)
EditorCancel(i) ==
    /\ i \in DOMAIN editors
    /\ ~editors[i].closed
    /\ \E u \in {Unwind(AppState, [editors EXCEPT ![i].closed = TRUE])} :
          /\ focus_nodes' = u.app.focus_nodes
          /\ selected_node_id' = u.app.selected_node_id
          /\ is_dirty' = u.app.is_dirty
          /\ editors' = u.editors
          /\ last_op' = [name |-> "cancel", applied |-> u.app.op]
    /\ UNCHANGED <<txt_file, exported_nodes, last_calc>>

----------------------------------------------------------------------------
(* The other handlers of the main window *)

(* on_canvas_click: select_node(node_id) for the entry under the pointer,  *)
(* select_node(None) for a click on the background                         *)
SelectNode(node_id) ==
    /\ node_id \in Keys(focus_nodes) \cup {None}
    /\ selected_node_id' = node_id
    /\ last_op' = [name |-> "select"]
    /\ UNCHANGED <<focus_nodes, is_dirty, editors, txt_file, exported_nodes, last_calc>>

(* on_arrow_key_press *)
OnArrowKeyPress(keysym) ==
    LET dx == IF keysym = "Left" THEN -1 ELSE IF keysym = "Right" THEN 1 ELSE 0
        dy == IF keysym = "Up" THEN -1 ELSE IF keysym = "Down" THEN 1 ELSE 0
    IN /\ IF Falsy(selected_node_id) \/ selected_node_id \notin Keys(focus_nodes)
          THEN /\ last_op' = [name |-> "key_ignored"]
               /\ UNCHANGED <<focus_nodes, is_dirty>>
          ELSE LET i == IndexOf(focus_nodes, selected_node_id)
               IN /\ focus_nodes[i].x + dx \in (-MaxCoord)..MaxCoord
                  /\ focus_nodes[i].y + dy \in (-MaxCoord)..MaxCoord
                  /\ focus_nodes' = DrawTree([focus_nodes EXCEPT ![i].x = @ + dx,
                                                                 ![i].y = @ + dy])
                  /\ is_dirty' = TRUE
                  /\ last_op' = [name |-> "move"]
       /\ UNCHANGED <<selected_node_id, editors, txt_file, exported_nodes, last_calc>>

(* list.remove(v): the first occurrence goes *)
RemoveFirst(list, v) == RemoveAt(list, MinOf({j \in DOMAIN list : list[j] = v}))

(* the loop of delete_selected_node over the remaining entries *)
DropReferences(nodes, deleted_id) ==
    [i \in DOMAIN nodes |->
        [nodes[i] EXCEPT
            !.relative_position_id = IF @ = deleted_id THEN None ELSE @,
            !.prerequisite = IF deleted_id \in Range(@) THEN RemoveFirst(@, deleted_id)
                             ELSE @]]

(* delete_selected_node; confirmed is the answer to the question *)
DeleteSelectedNode(confirmed) ==
    /\ IF Falsy(selected_node_id) \/ ~confirmed \/ selected_node_id \notin Keys(focus_nodes)
       THEN /\ last_op' = [name |-> "delete_nothing"]
            /\ UNCHANGED <<focus_nodes, selected_node_id, is_dirty>>
       ELSE /\ focus_nodes' = DrawTree(DropReferences(DictDel(focus_nodes, selected_node_id),
                                                      selected_node_id))
            /\ selected_node_id' = None
            /\ is_dirty' = TRUE
            /\ last_op' = [name |-> "delete", id |-> selected_node_id]
    /\ UNCHANGED <<editors, txt_file, exported_nodes, last_calc>>

(* new_file; discard is the answer to the unsaved-changes question *)
NewFile(discard) ==
    /\ IF is_dirty /\ ~discard
       THEN /\ last_op' = [name |-> "new_declined"]
            /\ UNCHANGED <<focus_nodes, selected_node_id, is_dirty>>
       ELSE /\ focus_nodes' = <<>>
            /\ selected_node_id' = None
            /\ is_dirty' = FALSE
            /\ last_op' = [name |-> "new"]
    /\ UNCHANGED <<editors, txt_file, exported_nodes, last_calc>>

----------------------------------------------------------------------------
(* The external editor of a FocusEditorWindow: _open_external_editor,      *)
(* _check_temp_file_for_changes and _stop_monitoring_temp_file.            *)
(* ext = [temp_reward_filepath, last_mod_time, after_id, timers, disk] is  *)
(* the monitoring state of the window editors[1]: a path is the number of  *)
(* the temp file, 0 standing for None; after_id is a timer id, 0 standing  *)
(* for None or an attribute not yet set; timers are the `after` callbacks  *)
(* Tk has scheduled for the window and not yet run or cancelled; disk[f]   *)
(* is the temp file f the window created, mtime 0 when it is not on disk.  *)

MaxTempFiles == 2               \* most temp files the window creates (clicks)
MaxModTime == 2                 \* an external editor writes while mtime is smaller

NoMonitoring ==
    [temp_reward_filepath |-> 0, last_mod_time |-> 0, after_id |-> 0, timers |-> {},
     disk |-> <<>>]

Removed == [mtime |-> 0, content |-> <<>>]

(* what the external editor writes into the file *)
ExternalContent == <<"add_stability", "=", "1">>

(* the id self.after returns: one no pending callback has *)
FreshTimer(timers) == MinOf((1..MaxTempFiles) \ timers)

(* self.after_id = self.after(1000, self._check_temp_file_for_changes) *)
Schedule(m) ==
    [m EXCEPT !.after_id = FreshTimer(m.timers),
              !.timers = @ \cup {FreshTimer(m.timers)}]

(* _stop_monitoring_temp_file *)
StopMonitoringTempFile(m) ==
    LET Remove(m1) ==
            IF m1.temp_reward_filepath # 0 /\ m1.disk[m1.temp_reward_filepath].mtime # 0
            THEN [m1 EXCEPT !.disk[m1.temp_reward_filepath] = Removed,
                            !.temp_reward_filepath = 0,
                            !.last_mod_time = 0]
            ELSE m1
    IN Remove(IF m.after_id # 0
              THEN [m EXCEPT !.timers = @ \ {m.after_id}, !.after_id = 0]
              ELSE m)

(* the window editors[1] exists: it was created and is not destroyed *)
WindowOpen == editors # <<>> /\ ~editors[1].closed

(* _open_external_editor; launched is FALSE when starting the external     *)
(* program raises, which the except branch answers with the clean-up       *)
OpenExternalEditor(launched) ==
    /\ WindowOpen
    /\ Len(ext.disk) < MaxTempFiles
    /\ \E created \in {[ext EXCEPT
                           !.disk = Append(@, [mtime |-> 1,
                                               content |-> Strip(editors[1].loaded.completion_reward)]),
                           !.temp_reward_filepath = Len(ext.disk) + 1,
                           !.last_mod_time = 1]} :
          ext' = IF launched THEN Schedule(created) ELSE StopMonitoringTempFile(created)
    /\ last_op' = [name |-> "open_external_editor", launched |-> launched]
    /\ UNCHANGED <<focus_nodes, selected_node_id, is_dirty, editors, txt_file,
                   exported_nodes, last_calc, steps, json_file, running>>

(* the callback of the timer t runs. After the window is destroyed the Tcl *)
(* command of the callback is deleted, so the timer runs out and nothing   *)
(* is executed.                                                            *)
CheckTempFileForChanges(t) ==
    /\ t \in ext.timers
    /\ \E m \in {[ext EXCEPT !.timers = @ \ {t}]} :
          IF ~WindowOpen
          THEN /\ ext' = m
               /\ last_op' = [name |-> "timer_expired"]
               /\ UNCHANGED <<editors, is_dirty>>
          ELSE IF m.temp_reward_filepath # 0 /\ m.disk[m.temp_reward_filepath].mtime # 0
          THEN IF m.disk[m.temp_reward_filepath].mtime # m.last_mod_time
               THEN /\ ext' = Schedule([m EXCEPT !.last_mod_time =
                                                     m.disk[m.temp_reward_filepath].mtime])
                    /\ editors' = [editors EXCEPT ![1].loaded.completion_reward =
                                                      m.disk[m.temp_reward_filepath].content]
                    /\ is_dirty' = TRUE
                    /\ last_op' = [name |-> "poll", read |-> TRUE]
               ELSE /\ ext' = Schedule(m)
                    /\ last_op' = [name |-> "poll", read |-> FALSE]
                    /\ UNCHANGED <<editors, is_dirty>>
          ELSE /\ ext' = StopMonitoringTempFile(m)
               /\ last_op' = [name |-> "poll_stopped"]
               /\ UNCHANGED <<editors, is_dirty>>
    /\ UNCHANGED <<focus_nodes, selected_node_id, txt_file, exported_nodes, last_calc,
                   steps, json_file, running>>

(* FocusEditorWindow.save of the window: the monitoring is stopped first,  *)
(* whether or not the id is accepted                                       *)
SaveWindow(focus_id) ==
    /\ EditorSave(1, focus_id, "", 0, 0, {})
    /\ ext' = StopMonitoringTempFile(ext)
    /\ UNCHANGED <<steps, json_file, running>>

(* FocusEditorWindow.cancel and _on_closing_editor_window, which differ in *)
(* nothing the model holds                                                 *)
CloseWindow ==
    /\ EditorCancel(1)
    /\ ext' = StopMonitoringTempFile(ext)
    /\ UNCHANGED <<steps, json_file, running>>

(* the external program saves the file f, or removes it *)
ExternalModify(f) ==
    /\ f \in DOMAIN ext.disk
    /\ ext.disk[f].mtime \in 1..(MaxModTime - 1)
    /\ ext' = [ext EXCEPT !.disk[f] = [mtime |-> @.mtime + 1, content |-> ExternalContent]]
    /\ last_op' = [name |-> "external_modify"]
    /\ UNCHANGED <<focus_nodes, selected_node_id, is_dirty, editors, txt_file,
                   exported_nodes, last_calc, steps, json_file, running>>

ExternalDelete(f) ==
    /\ f \in DOMAIN ext.disk
    /\ ext.disk[f].mtime # 0
    /\ ext' = [ext EXCEPT !.disk[f] = Removed]
    /\ last_op' = [name |-> "external_delete"]
    /\ UNCHANGED <<focus_nodes, selected_node_id, is_dirty, editors, txt_file,
                   exported_nodes, last_calc, steps, json_file, running>>

----------------------------------------------------------------------------
(* save_file, open_file, on_closing and the File menu's other commands     *)

(* json.dump of {node_id: node.to_dict()}: the items in dictionary order *)
JsonOf(nodes) ==
    [kind |-> "mapping",
     items |-> [i \in DOMAIN nodes |->
                   [key |-> nodes[i].key, object |-> TRUE, value |-> StoredOf(nodes[i])]]]

(* the .json files an open can be pointed at, besides the saved one: a     *)
(* mapping whose second value is a number, a list, and a file cut off in   *)
(* the middle                                                              *)
JsonNames == {"bad_value", "not_mapping", "truncated"}

JsonSample(name) ==
    CASE name = "bad_value" ->
            [kind |-> "mapping",
             items |-> <<[key |-> "A", object |-> TRUE,
                          value |-> [NodeDefaults EXCEPT !.key = "A", !.id = "A"]],
                         [key |-> "B", object |-> FALSE, value |-> NodeDefaults]>>]
      [] name = "not_mapping" -> [kind |-> "list", items |-> <<>>]
      [] name = "truncated" -> [kind |-> "invalid", items |-> <<>>]

(* the for loop of open_file over loaded_data.items(): FocusNode(node_data) *)
(* raises AttributeError for a value that is no object                      *)
RECURSIVE LoadItems(_, _)
LoadItems(items, nodes) ==
    IF items = <<>> THEN [nodes |-> nodes, raised |-> FALSE]
    ELSE IF ~Head(items).object THEN [nodes |-> nodes, raised |-> TRUE]
    ELSE LoadItems(Tail(items),
                   DictSet(nodes, Head(items).key, FocusNode(Head(items).value)))

(* the try block of open_file: json.load raises before the document is     *)
(* touched; .items() of a list raises after focus_nodes.clear()            *)
LoadJson(content) ==
    IF content.kind = "invalid" THEN [cleared |-> FALSE, nodes |-> <<>>, raised |-> TRUE]
    ELSE IF content.kind = "list" THEN [cleared |-> TRUE, nodes |-> <<>>, raised |-> TRUE]
    ELSE [cleared |-> TRUE, nodes |-> LoadItems(content.items, <<>>).nodes,
          raised |-> LoadItems(content.items, <<>>).raised]

(* save_file; outcome is "cancelled" (no path chosen, returns False),      *)
(* "saved" (returns True) or "error" (the write raises, returns None)      *)
SaveOutcomes == {"cancelled", "saved", "error"}

SaveFile(outcome) ==
    /\ IF outcome = "saved"
       THEN /\ json_file' = JsonOf(focus_nodes)
            /\ is_dirty' = FALSE
       ELSE UNCHANGED <<json_file, is_dirty>>
    /\ last_op' = [name |-> "save_file", outcome |-> outcome]
    /\ UNCHANGED <<focus_nodes, selected_node_id, editors, txt_file, exported_nodes,
                   last_calc, running, ext>>

(* open_file of the file named file ("none": the dialog is cancelled,      *)
(* "saved": the file the last save_file wrote); discard is the answer to   *)
(* the unsaved-changes question                                            *)
OpenFile(discard, file) ==
    /\ file = "saved" => json_file # NoJson
    /\ IF is_dirty /\ ~discard
       THEN /\ last_op' = [name |-> "open_declined"]
            /\ UNCHANGED <<focus_nodes, selected_node_id, is_dirty>>
       ELSE IF file = "none"
       THEN /\ last_op' = [name |-> "open_nothing"]
            /\ UNCHANGED <<focus_nodes, selected_node_id, is_dirty>>
       ELSE \E loaded \in {LoadJson(IF file = "saved" THEN json_file ELSE JsonSample(file))} :
               IF loaded.raised
               THEN /\ focus_nodes' = IF loaded.cleared THEN loaded.nodes ELSE focus_nodes
                    /\ last_op' = [name |-> "open_failed", file |-> file]
                    /\ UNCHANGED <<selected_node_id, is_dirty>>
               ELSE /\ focus_nodes' = DrawTree(loaded.nodes)
                    /\ selected_node_id' = None
                    /\ is_dirty' = FALSE
                    /\ last_op' = [name |-> "open", file |-> file]
    /\ UNCHANGED <<editors, txt_file, exported_nodes, last_calc, json_file, running, ext>>

(* on_closing, the handler of the main window's close button; response is  *)
(* the answer to askyesnocancel, outcome what save_file does when called   *)
Responses == {"yes", "no", "cancel"}

OnClosing(response, outcome) ==
    /\ IF is_dirty /\ response = "yes" /\ outcome = "saved"
       THEN /\ json_file' = JsonOf(focus_nodes)
            /\ is_dirty' = FALSE
       ELSE UNCHANGED <<json_file, is_dirty>>
    /\ running' = (is_dirty /\ (response = "cancel"
                                \/ (response = "yes" /\ outcome # "saved")))
    /\ last_op' = [name |-> "on_closing", asked |-> is_dirty, response |-> response,
                   outcome |-> outcome]
    /\ UNCHANGED <<focus_nodes, selected_node_id, editors, txt_file, exported_nodes,
                   last_calc, ext>>

(* the File menu's exit command: root.quit, which makes mainloop return *)
Quit ==
    /\ running' = FALSE
    /\ last_op' = [name |-> "quit"]
    /\ UNCHANGED <<focus_nodes, selected_node_id, is_dirty, editors, txt_file,
                   exported_nodes, last_calc, json_file, ext>>

(* export_localization_file; chosen is FALSE when the dialog is cancelled *)
ExportLocalizationFile(chosen) ==
    /\ last_op' = [name |-> IF focus_nodes = <<>> \/ ~chosen
                            THEN "export_localization_nothing"
                            ELSE "export_localization"]
    /\ UNCHANGED <<focus_nodes, selected_node_id, is_dirty, editors, txt_file,
                   exported_nodes, last_calc, json_file, running, ext>>

----------------------------------------------------------------------------
(* Specification Spec: the application from its start, every handler *)

MaxSteps == 5                   \* most handlers one behaviour runs

(* what the user types and picks in the editor form *)
FormIds == {"", "A", "B", "C"}
FormRefs == {"", "A", "B", "C"}
FormCoords == {1}
ClickCells == {<<1, 1>>}
ArrowKeys == {"Left", "Right", "Up", "Down"}

Init ==
    /\ focus_nodes = <<>>
    /\ selected_node_id = None
    /\ is_dirty = FALSE
    /\ editors = <<>>
    /\ txt_file = NoFile
    /\ exported_nodes = <<>>
    /\ last_op = NoOp
    /\ last_calc = NoCalc
    /\ steps = 0
    /\ json_file = NoJson
    /\ running = TRUE
    /\ ext = NoMonitoring

Handler ==
    \/ AddFocusNode
    \/ \E cell \in ClickCells : AddFocusNodeAtClickedPosition(cell[1], cell[2])
    \/ EditSelectedNode
    \/ \E i \in DOMAIN editors :
          \E focus_id \in FormIds, relative_id \in FormRefs,
             x \in {editors[i].loaded.x} \cup FormCoords,
             checked \in SUBSET Range(PrereqIds(editors[i].existing_ids,
                                                editors[i].original_id)) :
             EditorSave(i, focus_id, relative_id, x, editors[i].loaded.y, checked)
    \/ \E i \in DOMAIN editors : EditorCancel(i)
    \/ \E node_id \in Keys(focus_nodes) \cup {None} : SelectNode(node_id)
    \/ \E keysym \in ArrowKeys : OnArrowKeyPress(keysym)
    \/ \E confirmed \in BOOLEAN : DeleteSelectedNode(confirmed)
    \/ \E discard \in BOOLEAN : NewFile(discard)
    \/ \E chosen \in BOOLEAN : ExportHoi4Txt(chosen)
    \/ \E file \in SampleNames \cup {"exported"}, discard \in BOOLEAN :
          ImportHoi4Txt(file, discard)

Next == steps < MaxSteps /\ steps' = steps + 1 /\ Handler /\ UNCHANGED <<json_file, running, ext>>

Spec == Init /\ [][Next]_vars

----------------------------------------------------------------------------
(* Specification SpecFile: the application from its start, with the        *)
(* handlers of Spec and those that save, open and close                    *)

FileHandler ==
    \/ \E outcome \in SaveOutcomes : SaveFile(outcome)
    \/ \E discard \in BOOLEAN, file \in JsonNames \cup {"none", "saved"} :
          OpenFile(discard, file)
    \/ \E response \in Responses, outcome \in SaveOutcomes : OnClosing(response, outcome)
    \/ Quit
    \/ \E chosen \in BOOLEAN : ExportLocalizationFile(chosen)

NextFile ==
    /\ running
    /\ steps < MaxSteps
    /\ steps' = steps + 1
    /\ \/ Handler /\ UNCHANGED <<json_file, running, ext>>
       \/ FileHandler

SpecFile == Init /\ [][NextFile]_vars

----------------------------------------------------------------------------
(* Specification SpecPoll: one editor window, opened by add_focus_node on  *)
(* the empty document, with its external editor, the timers and the temp   *)
(* files                                                                   *)

PollIds == {"", "A"}

InitPoll ==
    /\ focus_nodes = <<>>
    /\ selected_node_id = None
    /\ is_dirty = FALSE
    /\ editors = <<NewEditor(<<>>, 0, 0)>>
    /\ txt_file = NoFile
    /\ exported_nodes = <<>>
    /\ last_op = [name |-> "open_add"]
    /\ last_calc = NoCalc
    /\ steps = 0
    /\ json_file = NoJson
    /\ running = TRUE
    /\ ext = NoMonitoring

NextPoll ==
    \/ \E launched \in BOOLEAN : OpenExternalEditor(launched)
    \/ \E t \in ext.timers : CheckTempFileForChanges(t)
    \/ \E focus_id \in PollIds : SaveWindow(focus_id)
    \/ CloseWindow
    \/ \E f \in DOMAIN ext.disk : ExternalModify(f)
    \/ \E f \in DOMAIN ext.disk : ExternalDelete(f)

SpecPoll == InitPoll /\ [][NextPoll]_vars

----------------------------------------------------------------------------
(* Specification SpecResolve: calculate_positions applied to every document *)
(* of a bounded family (cycles, self-references, dangling references and    *)
(* every dictionary order included).                                        *)

(* the relative positions an entry of the family has *)
ResolveCoords == {<<0, 0>>, <<1, -2>>}

ResolveRefs == {None, "", Dangling} \cup Range(Ids)

ResolveNode(id, ref, xy) ==
    FocusNode([NodeDefaults EXCEPT !.key = id, !.id = id,
                                   !.relative_position_id = ref,
                                   !.x = xy[1], !.y = xy[2]])

(* the sequences of distinct ids of length n: the key orders of a dict *)
KeyOrders(n) ==
    {ks \in [1..n -> Range(Ids)] : \A i, j \in 1..n : i # j => ks[i] # ks[j]}

ResolveDocs ==
    UNION {{[i \in 1..n |-> ResolveNode(ks[i], refs[i], xys[i])] :
               ks \in KeyOrders(n), refs \in [1..n -> ResolveRefs],
               xys \in [1..n -> ResolveCoords]} : n \in 0..MaxNodes}

InitResolve ==
    /\ focus_nodes \in ResolveDocs
    /\ selected_node_id = None
    /\ is_dirty = FALSE
    /\ editors = <<>>
    /\ txt_file = NoFile
    /\ exported_nodes = <<>>
    /\ last_op = NoOp
    /\ last_calc = NoCalc
    /\ steps = 0
    /\ json_file = NoJson
    /\ running = TRUE
    /\ ext = NoMonitoring

(* one call of calculate_positions on the document *)
CalculatePositionsCall ==
    LET st == CalculatePositions(focus_nodes)
    IN /\ focus_nodes' = st.nodes
       /\ last_calc' = [called |-> TRUE, before |-> focus_nodes,
                        log |-> st.log,
                        queue |-> [j \in DOMAIN st.queue |-> st.nodes[st.queue[j]].key],
                        marks |-> st.marks, dequeues |-> st.dequeues]
       /\ last_op' = [name |-> "calculate_positions"]
       /\ UNCHANGED <<selected_node_id, is_dirty, editors, txt_file, exported_nodes, steps>>

NextResolve == CalculatePositionsCall /\ UNCHANGED <<json_file, running, ext>>

SpecResolve == InitResolve /\ [][NextResolve]_vars

----------------------------------------------------------------------------
(* Properties of calculate_positions, checked under SpecResolve *)

(* the entry m steps up the relative_position_id chain of key k, None when *)
(* the chain ends before                                                   *)
RECURSIVE Ancestor(_, _, _)
Ancestor(nodes, k, m) ==
    IF m = 0 THEN k
    ELSE IF k \notin Keys(nodes) THEN None
    ELSE IF IsRoot(nodes, Get(nodes, k)) THEN None
    ELSE Ancestor(nodes, Get(nodes, k).relative_position_id, m - 1)

OnCycle(nodes, k) == \E m \in 1..Len(nodes) : Ancestor(nodes, k, m) = k

WritesOf(k) == Cardinality({j \in DOMAIN last_calc.log : last_calc.log[j].key = k})

(* C1: one call of calculate_positions assigns abs_x, abs_y of every entry *)
(* of the document exactly once, whatever cycles, self-references or       *)
(* dangling references the document has: no key is left out, none is      *)
(* assigned twice, and nothing but a key of the document is assigned.      *)
C1_Totality ==
    last_calc.called =>
        /\ \A k \in Keys(focus_nodes) : WritesOf(k) = 1
        /\ \A j \in DOMAIN last_calc.log : last_calc.log[j].key \in Keys(focus_nodes)
        /\ Len(last_calc.log) = Len(focus_nodes)

(* a call on a document that has a cycle, a dangling reference and a child *)
C1_Witness ==
    /\ last_calc.called
    /\ \E k \in Keys(focus_nodes) : OnCycle(focus_nodes, k)
    /\ \E i \in DOMAIN focus_nodes : focus_nodes[i].relative_position_id = Dangling
    /\ \E j \in DOMAIN last_calc.log : last_calc.log[j].phase = "fallback"

(* C7: calculate_positions ends after taking at most one entry per entry   *)
(* of the document from its queue, and every entry on a cycle of           *)
(* relative_position_id references (A <-> B, or an entry that names        *)
(* itself) gets the root formula (x * GRID_SIZE, y * GRID_SIZE).           *)
C7_CycleTermination ==
    last_calc.called =>
        /\ last_calc.dequeues <= Len(focus_nodes)
        /\ \A i \in DOMAIN focus_nodes :
              OnCycle(focus_nodes, focus_nodes[i].key) =>
                  /\ focus_nodes[i].abs_x = focus_nodes[i].x * GRID_SIZE
                  /\ focus_nodes[i].abs_y = focus_nodes[i].y * GRID_SIZE

(* a call on a document where two entries off the origin name each other *)
C7_Witness ==
    /\ last_calc.called
    /\ \E i, j \in DOMAIN focus_nodes :
          /\ i # j
          /\ focus_nodes[i].relative_position_id = focus_nodes[j].id
          /\ focus_nodes[j].relative_position_id = focus_nodes[i].id
          /\ focus_nodes[i].x # 0
          /\ focus_nodes[j].y # 0
          /\ focus_nodes[i].abs_x = focus_nodes[i].x * GRID_SIZE
          /\ focus_nodes[j].abs_y = focus_nodes[j].y * GRID_SIZE

(* C10: calculate_positions changes abs_x and abs_y only: the keys, their  *)
(* order and every stored field of every entry are after the call what     *)
(* they were before it.                                                    *)
C10_ResolverFrame ==
    last_calc.called => Stored(focus_nodes) = Stored(last_calc.before)

(* a call that did change the absolute coordinates of an entry *)
C10_Witness ==
    /\ last_calc.called
    /\ \E i \in DOMAIN focus_nodes :
          /\ focus_nodes[i].abs_x # last_calc.before[i].abs_x
          /\ focus_nodes[i].abs_y # last_calc.before[i].abs_y

(* the documents that hold the entries of nodes in another dictionary      *)
(* order and with other values left in abs_x, abs_y by earlier calls       *)
StaleAbs == {0, GRID_SIZE}

Revisited(nodes) ==
    {[i \in DOMAIN nodes |->
         [Get(nodes, ks[i]) EXCEPT !.abs_x = stale[i], !.abs_y = stale[i]]] :
        ks \in {o \in KeyOrders(Len(nodes)) : Range(o) = Keys(nodes)},
        stale \in [DOMAIN nodes -> StaleAbs]}

AbsOf(nodes, k) == <<Get(nodes, k).abs_x, Get(nodes, k).abs_y>>

(* C11: the absolute coordinates calculate_positions assigns depend on the *)
(* stored content of the document only: the same entries visited in any    *)
(* other dictionary order, and holding any abs_x, abs_y left by an earlier *)
(* call, get the same (abs_x, abs_y) entry by entry.                       *)
C11_ResolverDeterminism ==
    last_calc.called =>
        \A other \in Revisited(last_calc.before) :
            \A k \in Keys(focus_nodes) :
                AbsOf(CalculatePositions(other).nodes, k) = AbsOf(focus_nodes, k)

(* a call on a document where a child off the origin comes before its      *)
(* parent in the dictionary and another entry names itself                 *)
C11_Witness ==
    /\ last_calc.called
    /\ \E i, j, l \in DOMAIN focus_nodes :
          /\ i < j
          /\ focus_nodes[i].relative_position_id = focus_nodes[j].id
          /\ IsRoot(focus_nodes, focus_nodes[j])
          /\ focus_nodes[j].x # 0
          /\ focus_nodes[i].abs_x = focus_nodes[j].abs_x + focus_nodes[i].x * GRID_SIZE
          /\ focus_nodes[l].relative_position_id = focus_nodes[l].id
          /\ focus_nodes[l].x # 0


(* the entry's chain of relative_position_id references ends at a root *)
ReachesRoot(nodes, k) ==
    \E m \in 0..(Len(nodes) - 1) :
        /\ Ancestor(nodes, k, m) \in Keys(nodes)
        /\ IsRoot(nodes, Get(nodes, Ancestor(nodes, k, m)))

(* the entry's chain of references runs into a cycle *)
LeadsToCycle(nodes, k) ==
    \E m \in 0..(Len(nodes) - 1) :
        /\ Ancestor(nodes, k, m) \in Keys(nodes)
        /\ OnCycle(nodes, Ancestor(nodes, k, m))

(* the sum of the stored (x, y) of the entry k and of its ancestors up to  *)
(* the root, over a chain of at most m references                          *)
RECURSIVE ChainSum(_, _, _)
ChainSum(nodes, k, m) ==
    LET n == Get(nodes, k)
        Sum(up) == <<n.x + up[1], n.y + up[2]>>
    IN IF IsRoot(nodes, n) \/ m = 0 THEN <<n.x, n.y>>
       ELSE Sum(ChainSum(nodes, n.relative_position_id, m - 1))

(* C15: a root (reference absent, empty or naming no key) gets             *)
(* (x * GRID_SIZE, y * GRID_SIZE); an entry whose chain of references      *)
(* reaches a root gets its parent's position plus (x, y) * GRID_SIZE,      *)
(* which is GRID_SIZE times the sum of the stored (x, y) along the chain.  *)
C15_ScaledChainSum ==
    last_calc.called =>
        \A i \in DOMAIN focus_nodes :
            LET n == focus_nodes[i]
            IN /\ IsRoot(focus_nodes, n) =>
                     AbsOf(focus_nodes, n.key) = <<n.x * GRID_SIZE, n.y * GRID_SIZE>>
               /\ (~IsRoot(focus_nodes, n) /\ ReachesRoot(focus_nodes, n.key)) =>
                     /\ n.abs_x = Get(focus_nodes, n.relative_position_id).abs_x
                                  + n.x * GRID_SIZE
                     /\ n.abs_y = Get(focus_nodes, n.relative_position_id).abs_y
                                  + n.y * GRID_SIZE
               /\ ReachesRoot(focus_nodes, n.key) =>
                     AbsOf(focus_nodes, n.key) =
                         <<GRID_SIZE * ChainSum(focus_nodes, n.key, Len(focus_nodes))[1],
                           GRID_SIZE * ChainSum(focus_nodes, n.key, Len(focus_nodes))[2]>>

(* a call on a chain of three entries off the origin: a root named by a    *)
(* dangling reference, its child and its grandchild                        *)
C15_Witness ==
    /\ last_calc.called
    /\ \E i, j, l \in DOMAIN focus_nodes :
          /\ focus_nodes[i].relative_position_id = Dangling
          /\ focus_nodes[j].relative_position_id = focus_nodes[i].id
          /\ focus_nodes[l].relative_position_id = focus_nodes[j].id
          /\ focus_nodes[i].x # 0 /\ focus_nodes[j].x # 0 /\ focus_nodes[l].x # 0
          /\ focus_nodes[l].abs_x = 3 * GRID_SIZE

(* the phase of the call that wrote the position of k last *)
PhaseOf(k) ==
    last_calc.log[MaxOf({j \in DOMAIN last_calc.log : last_calc.log[j].key = k})].phase

(* C16: the last loop positions an entry if and only if its chain of       *)
(* references runs into a cycle (an entry that names itself included); an  *)
(* entry with a dangling reference is a root; and every entry the last     *)
(* loop positions gets (x * GRID_SIZE, y * GRID_SIZE).                     *)
C16_FallbackIffCycle ==
    last_calc.called =>
        \A i \in DOMAIN focus_nodes :
            LET n == focus_nodes[i]
            IN /\ PhaseOf(n.key) = "fallback" <=> LeadsToCycle(focus_nodes, n.key)
               /\ n.relative_position_id \notin Keys(focus_nodes) => PhaseOf(n.key) = "root"
               /\ PhaseOf(n.key) = "fallback" =>
                     AbsOf(focus_nodes, n.key) = <<n.x * GRID_SIZE, n.y * GRID_SIZE>>

(* a call on a document with an entry off the origin that hangs on a cycle *)
(* without being on it, and an entry with a dangling reference             *)
C16_Witness ==
    /\ last_calc.called
    /\ \E i, j, l \in DOMAIN focus_nodes :
          /\ focus_nodes[i].relative_position_id = focus_nodes[i].id
          /\ j # i
          /\ focus_nodes[j].relative_position_id = focus_nodes[i].id
          /\ focus_nodes[j].x # 0
          /\ PhaseOf(focus_nodes[j].key) = "fallback"
          /\ focus_nodes[l].relative_position_id = Dangling
          /\ PhaseOf(focus_nodes[l].key) = "root"

(* C17: during one call calculated_nodes only grows, by one entry at a     *)
(* time and never by an entry it holds; no entry is put on the queue       *)
(* twice; the position of every entry is written exactly once; the queue   *)
(* loop takes at most one entry per entry of the document; and the last    *)
(* loop writes after the queue loop has ended.                             *)
C17_MonotoneResolution ==
    last_calc.called =>
        /\ \A j \in DOMAIN last_calc.marks :
              /\ Cardinality(last_calc.marks[j]) = j
              /\ j > 1 => last_calc.marks[j - 1] \subseteq last_calc.marks[j]
        /\ \A i, j \in DOMAIN last_calc.queue :
              i # j => last_calc.queue[i] # last_calc.queue[j]
        /\ Len(last_calc.queue) = Len(last_calc.marks)
        /\ \A k \in Keys(focus_nodes) : WritesOf(k) = 1
        /\ last_calc.dequeues <= Len(focus_nodes)
        /\ last_calc.dequeues = Len(last_calc.queue)
        /\ \A i, j \in DOMAIN last_calc.log :
              (last_calc.log[i].phase = "fallback" /\ i < j) =>
                  last_calc.log[j].phase = "fallback"

(* a call that put three entries on the queue, a grandchild included *)
C17_Witness ==
    /\ last_calc.called
    /\ Len(last_calc.queue) = 3
    /\ last_calc.dequeues = 3
    /\ \E j \in DOMAIN focus_nodes :
          /\ ~IsRoot(focus_nodes, focus_nodes[j])
          /\ ~IsRoot(focus_nodes, Get(focus_nodes, focus_nodes[j].relative_position_id))
          /\ PhaseOf(focus_nodes[j].key) = "child"

----------------------------------------------------------------------------
(* Specification SpecText: export and import applied to every document of  *)
(* a bounded family and to the sample files.                               *)

TextIds == <<"A", "B">>

FlatReward == <<"{", NL, "add_political_power", "=", "100", NL, "}">>

NestedReward ==
    <<"{", NL, "add_ideas", "=", "{", "idea", "=", "X", "}", NL,
      "add_stability", "=", "1", NL, "}">>

TextRewards == {NodeDefaults.completion_reward, FlatReward, NestedReward}

TextScalars ==
    {[icon |-> DefaultIcon, cost |-> DefaultCost, x |-> 0, y |-> 0],
     [icon |-> "GFX_goal", cost |-> 5, x |-> -1, y |-> 1]}

TextRefs(other) == {None, other, "C"}

TextPrereqs(other) == {<<>>, <<other>>, <<"C", other>>}

TextNodes(id, other) ==
    {FocusNode([NodeDefaults EXCEPT !.key = id, !.id = id, !.icon = sc.icon,
                                    !.cost = sc.cost, !.x = sc.x, !.y = sc.y,
                                    !.relative_position_id = ref,
                                    !.prerequisite = pre,
                                    !.completion_reward = rew]) :
        sc \in TextScalars, ref \in TextRefs(other), pre \in TextPrereqs(other),
        rew \in TextRewards}

(* the second entry of a two-entry document *)
TextSeconds(id, other) ==
    {FocusNode([NodeDefaults EXCEPT !.key = id, !.id = id]),
     FocusNode([NodeDefaults EXCEPT !.key = id, !.id = id, !.x = 1,
                                    !.relative_position_id = other,
                                    !.prerequisite = <<other>>,
                                    !.completion_reward = FlatReward])}

TextDocs ==
    {<<a>> : a \in TextNodes("A", "B")}
    \cup {<<a, b>> : a \in TextNodes("A", "B"), b \in TextSeconds("B", "A")}
    \cup {<<b, a>> : a \in TextNodes("A", "B"), b \in TextSeconds("B", "A")}

InitText ==
    /\ focus_nodes \in {<<>>} \cup {DrawTree(d) : d \in TextDocs}
    /\ selected_node_id = None
    /\ is_dirty = TRUE
    /\ editors = <<>>
    /\ txt_file = NoFile
    /\ exported_nodes = <<>>
    /\ last_op = NoOp
    /\ last_calc = NoCalc
    /\ steps = 0
    /\ json_file = NoJson
    /\ running = TRUE
    /\ ext = NoMonitoring

NextText ==
    /\ UNCHANGED <<steps, json_file, running, ext>>
    /\ \/ \E chosen \in BOOLEAN : ExportHoi4Txt(chosen)
       \/ \E file \in SampleNames \cup {"exported"}, discard \in BOOLEAN :
             ImportHoi4Txt(file, discard)

SpecText == InitText /\ [][NextText]_vars

----------------------------------------------------------------------------
(* Properties of the script parser and serializer, checked under SpecText *)

(* field equivalence of two documents: the same ids and, per id, the same  *)
(* icon, cost, x, y, relative_position_id, prerequisite set and trimmed    *)
(* reward text                                                             *)
FieldEquivalent(d, e) ==
    /\ Keys(d) = Keys(e)
    /\ \A k \in Keys(d) :
          LET n == Get(d, k)
              m == Get(e, k)
          IN /\ n.id = m.id
             /\ n.icon = m.icon
             /\ n.cost = m.cost
             /\ n.x = m.x
             /\ n.y = m.y
             /\ n.relative_position_id = m.relative_position_id
             /\ Range(n.prerequisite) = Range(m.prerequisite)
             /\ Strip(n.completion_reward) = Strip(m.completion_reward)

(* C4: importing the file the export wrote gives a document that is field  *)
(* equivalent to the exported one: parse(generate(D)) has D's ids and, for *)
(* every id, D's icon, cost, x, y, relative_position_id, prerequisite set  *)
(* and trimmed reward text.                                                *)
C4_RoundTrip ==
    (last_op.name = "import" /\ last_op.file = "exported") =>
        FieldEquivalent(focus_nodes, exported_nodes)

(* C5: the single-line input of the scenario parses to the two entries A   *)
(* and B with A.cost = 5, B.relative_position_id = A, B at x = 1, y = 0    *)
(* with prerequisite {A}; A is placed at (0, 0) and B at (GRID_SIZE, 0),   *)
(* and B's prerequisite is serialized in the inline form.                  *)
C5_SingleLineScenario ==
    (last_op.name \in {"import", "import_nothing"} /\ last_op.file = "single_line") =>
        /\ Len(focus_nodes) = 2
        /\ Keys(focus_nodes) = {"A", "B"}
        /\ Get(focus_nodes, "A").cost = 5
        /\ Get(focus_nodes, "A").abs_x = 0
        /\ Get(focus_nodes, "A").abs_y = 0
        /\ Get(focus_nodes, "B").relative_position_id = "A"
        /\ Get(focus_nodes, "B").x = 1
        /\ Get(focus_nodes, "B").y = 0
        /\ Get(focus_nodes, "B").prerequisite = <<"A">>
        /\ Get(focus_nodes, "B").abs_x = GRID_SIZE
        /\ Get(focus_nodes, "B").abs_y = 0
        /\ PrerequisiteText(Get(focus_nodes, "B").prerequisite)
               = <<"prerequisite", "=", "{", "focus", "=", "A", "}", NL>>

(* the document the file two_blocks holds: B with the prerequisites A and C *)
IsTwoBlocksDoc(d) ==
    /\ Keys(d) = {"A", "B", "C"}
    /\ Get(d, "A").prerequisite = <<>>
    /\ Get(d, "C").prerequisite = <<>>
    /\ Range(Get(d, "B").prerequisite) = {"A", "C"}
    /\ Len(Get(d, "B").prerequisite) = 2

(* C9: a focus block with the two sub-blocks prerequisite = { focus = A }  *)
(* and prerequisite = { focus = C } is read as the prerequisite set {A, C} *)
(* (each once), and the export of that document holds exactly one          *)
(* prerequisite block, which names both A and C.                           *)
C9_TwoBlocksFlatten ==
    /\ (last_op.name = "import" /\ last_op.file = "two_blocks") =>
           IsTwoBlocksDoc(focus_nodes)
    /\ (txt_file # NoFile /\ IsTwoBlocksDoc(exported_nodes)) =>
           /\ Count(txt_file, "prerequisite") = 1
           /\ LET m == SubBlockMatch(txt_file, "prerequisite", 1)
                  refs == FindFocuses(Group1(txt_file, m), 1)
              IN Range(refs) = {"A", "C"} /\ Len(refs) = 2

(* the file two_blocks was imported and the document exported again *)
C9_Witness ==
    /\ last_op.name = "export"
    /\ IsTwoBlocksDoc(exported_nodes)
    /\ exported_nodes = focus_nodes
    /\ Count(txt_file, "prerequisite") = 1
    /\ Count(txt_file, "focus") = 5

----------------------------------------------------------------------------
(* Properties of the editing handlers, checked under Spec *)

(* one window was closed and its handler continued in this step *)
OneResultApplied ==
    /\ last_op'.name \in {"save", "cancel"}
    /\ Len(editors') = Len(editors) - 1

(* the entry of the document before the step that became the entry m *)
Before(m, old_id, new_id) ==
    IF m.key = new_id THEN Get(focus_nodes, old_id) ELSE Get(focus_nodes, m.key)

(* C2: an edit that renames the selected entry X to Y, Y being no key,     *)
(* turns relative_position_id = X of every other entry into Y and X in     *)
(* every other entry's prerequisite list into Y, and afterwards no entry,  *)
(* the renamed one included, keeps X as relative_position_id or among its  *)
(* prerequisites.                                                          *)
C2_RenameCascade ==
    [][(OneResultApplied /\ last_op'.applied.name = "rename") =>
          LET X == last_op'.applied.old_id
              Y == last_op'.applied.new_id
          IN /\ \A i \in DOMAIN focus_nodes :
                   LET n == focus_nodes[i]
                   IN n.key # X =>
                         /\ n.relative_position_id = X =>
                               Get(focus_nodes', n.key).relative_position_id = Y
                         /\ X \in Range(n.prerequisite) =>
                               Y \in Range(Get(focus_nodes', n.key).prerequisite)
             /\ \A i \in DOMAIN focus_nodes' :
                   LET m == focus_nodes'[i]
                   IN /\ Before(m, X, Y).relative_position_id = X =>
                            m.relative_position_id # X
                      /\ X \in Range(Before(m, X, Y).prerequisite) =>
                            X \notin Range(m.prerequisite)]_vars

(* C3: after delete_selected_node has deleted X, X is no key, every entry  *)
(* whose relative_position_id was X has None there, and X occurs in no     *)
(* entry's prerequisite list.                                              *)
C3_DeleteCascade ==
    [][last_op'.name = "delete" =>
          LET X == last_op'.id
          IN /\ X \notin Keys(focus_nodes')
             /\ \A i \in DOMAIN focus_nodes' :
                   LET m == focus_nodes'[i]
                   IN /\ Get(focus_nodes, m.key).relative_position_id = X =>
                            m.relative_position_id = None
                      /\ m.relative_position_id # X
                      /\ X \notin Range(m.prerequisite)]_vars

(* C6: a save of the editor form with the empty id, or with an id that is  *)
(* a key of the document and not the edited entry's original id, is        *)
(* rejected and leaves the document as it is; so an add never writes over  *)
(* an entry that exists.                                                   *)
C6_UniquenessFailFast ==
    [][last_op'.name \in {"save", "save_rejected"} =>
          /\ (\/ last_op'.id = ""
              \/ (last_op'.id \in Keys(focus_nodes)
                  /\ last_op'.id # last_op'.original_id)) =>
                 (last_op'.name = "save_rejected" /\ focus_nodes' = focus_nodes)
          /\ (last_op'.name = "save" /\ last_op'.applied.name = "add") =>
                 last_op'.applied.fresh]_vars

(* a reference to X of an entry that the step keeps has become one to Y *)
CascadeBegun(X, Y) ==
    /\ X # Y
    /\ \E k \in Keys(focus_nodes) \cap Keys(focus_nodes') :
          \/ /\ Get(focus_nodes, k).relative_position_id = X
             /\ Get(focus_nodes', k).relative_position_id = Y
          \/ /\ X \in Range(Get(focus_nodes, k).prerequisite)
             /\ X \notin Range(Get(focus_nodes', k).prerequisite)

(* C14: the handlers run one after the other and a reader of the document  *)
(* runs between two of them only, so what a reader can observe is the      *)
(* document a handler leaves: a rename whose cascade has rewritten a       *)
(* reference has also replaced the key before the handler ends, and a      *)
(* delete that has removed the key has also run its cascade.               *)
C14_CascadeAtomic ==
    [][/\ (/\ OneResultApplied
           /\ last_op'.applied.name \in {"rename", "replace", "edit_failed"}
           /\ CascadeBegun(last_op'.applied.old_id, last_op'.applied.new_id)) =>
              /\ last_op'.applied.name # "edit_failed"
              /\ last_op'.applied.new_id \in Keys(focus_nodes')
              /\ last_op'.applied.old_id \notin Keys(focus_nodes')
       /\ last_op'.name = "delete" =>
              /\ last_op'.id \notin Keys(focus_nodes')
              /\ \A i \in DOMAIN focus_nodes' :
                    focus_nodes'[i].relative_position_id # last_op'.id]_vars

(* C26: an edit that gives the entry another relative_position_id (none, a *)
(* dangling one, or an entry whose chain of references reaches a root)     *)
(* leaves the entry where it was: its resolved absolute position after the *)
(* save is the resolved position it had when the edit began, whatever x    *)
(* was typed in the form.                                                  *)
C26_ReparentInPlace ==
    [][/\ last_op'.name = "open_edit" =>
              /\ editors'[Len(editors')].original_abs_x =
                     AbsOf(CalculatePositions(focus_nodes).nodes, selected_node_id)[1]
              /\ editors'[Len(editors')].original_abs_y =
                     AbsOf(CalculatePositions(focus_nodes).nodes, selected_node_id)[2]
       /\ (/\ OneResultApplied
           /\ last_op'.name = "save"
           /\ last_op'.applied.name \in {"edit", "rename", "replace"}) =>
              LET e == editors[Len(editors)]
                  Y == last_op'.applied.new_id
                  ref == Get(focus_nodes', Y).relative_position_id
              IN (/\ ref # e.original_relative_position_id
                  /\ \/ Falsy(ref)
                     \/ ref \notin Keys(focus_nodes')
                     \/ ReachesRoot(focus_nodes', ref)) =>
                     AbsOf(focus_nodes', Y) = <<e.original_abs_x, e.original_abs_y>>]_vars

(* the fields of an entry that no cascade writes *)
Scalars(n) ==
    [key |-> n.key, id |-> n.id, icon |-> n.icon, cost |-> n.cost, x |-> n.x, y |-> n.y,
     completion_reward |-> n.completion_reward]

(* the list without its members equal to v, the others in their order *)
Without(list, v) == SelectSeq(list, LAMBDA p : p # v)

(* C18: a rename of X to Y and a delete of X change, in an entry other     *)
(* than the edited or deleted one, references equal to X only: a           *)
(* relative_position_id that is not X, the prerequisite members that are   *)
(* not X (dangling ones included) and their order, and the scalar fields   *)
(* stay as they are, and no entry but X leaves or joins the document.      *)
C18_CascadeFrame ==
    [][/\ (OneResultApplied /\ last_op'.applied.name \in {"rename", "replace"}) =>
              LET X == last_op'.applied.old_id
                  Y == last_op'.applied.new_id
              IN /\ Keys(focus_nodes') = (Keys(focus_nodes) \ {X}) \cup {Y}
                 /\ \A k \in Keys(focus_nodes) \ {X} :
                       LET a == Get(focus_nodes, k)
                           b == Get(focus_nodes', k)
                       IN /\ Scalars(b) = Scalars(a)
                          /\ a.relative_position_id # X =>
                                b.relative_position_id = a.relative_position_id
                          /\ Len(b.prerequisite) = Len(a.prerequisite)
                          /\ \A j \in DOMAIN a.prerequisite :
                                a.prerequisite[j] # X =>
                                    b.prerequisite[j] = a.prerequisite[j]
       /\ last_op'.name = "delete" =>
              LET X == last_op'.id
              IN /\ Keys(focus_nodes') = Keys(focus_nodes) \ {X}
                 /\ \A k \in Keys(focus_nodes') :
                       LET a == Get(focus_nodes, k)
                           b == Get(focus_nodes', k)
                       IN /\ Scalars(b) = Scalars(a)
                          /\ a.relative_position_id # X =>
                                b.relative_position_id = a.relative_position_id
                          /\ Without(b.prerequisite, X) = Without(a.prerequisite, X)]_vars

(* C8: no prerequisite list of the document holds the same id twice *)
C8_PrerequisiteSets ==
    \A i \in DOMAIN focus_nodes :
        Cardinality(Range(focus_nodes[i].prerequisite)) = Len(focus_nodes[i].prerequisite)

----------------------------------------------------------------------------
(* Properties of the script text the document serializes to, checked under *)
(* Spec                                                                    *)

Bijections(n) == {f \in [1..n -> 1..n] : \A i, j \in 1..n : i # j => f[i] # f[j]}

Reorderings(s) == {[i \in DOMAIN s |-> s[f[i]]] : f \in Bijections(Len(s))}

(* the documents that hold the entries of nodes, every field the same and  *)
(* every prerequisite list with the same members, with the entries and the *)
(* members inserted in another order                                       *)
SameContent(nodes) ==
    {[i \in DOMAIN nodes |-> [nodes[f[i]] EXCEPT !.prerequisite = prereqs[f[i]]]] :
        f \in Bijections(Len(nodes)),
        prereqs \in {ps \in [DOMAIN nodes -> UNION {Reorderings(nodes[i].prerequisite) :
                                                      i \in DOMAIN nodes}] :
                        \A i \in DOMAIN nodes : ps[i] \in Reorderings(nodes[i].prerequisite)}}

(* C12: the script text depends on the content of the document only: a     *)
(* document with the same entries and the same prerequisite sets, built in *)
(* another order, serializes to the same text.                             *)
C12_SerializeDeterminism ==
    \A other \in SameContent(focus_nodes) :
        GenerateScriptString(other) = GenerateScriptString(focus_nodes)

----------------------------------------------------------------------------
(* Specification SpecParse: import_hoi4_txt applied to every file of a     *)
(* bounded family of script files: one focus block with zero to two offset *)
(* sub-blocks and a reward sub-block, and files whose last focus block is  *)
(* never closed.                                                           *)

OffsetKinds == {"inline", "only_x", "lines"}

OffsetText(kind) ==
    CASE kind = "inline" -> <<"offset", "=", "{", "x", "=", "1", "y", "=", "-1", "}", NL>>
      [] kind = "only_x" -> <<"offset", "=", "{", "x", "=", "3", "}", NL>>
      [] kind = "lines" -> <<"offset", "=", "{", NL, "x", "=", "4", NL,
                             "y", "=", "5", NL, "}", NL>>

(* the x and y an offset sub-block of the kind states, 0 for one it leaves out *)
OffsetXY(kind) ==
    CASE kind = "inline" -> <<1, -1>>
      [] kind = "only_x" -> <<3, 0>>
      [] kind = "lines" -> <<4, 5>>

OffsetLists ==
    {<<>>} \cup {<<k>> : k \in OffsetKinds} \cup {<<k, l>> : k, l \in OffsetKinds}

RECURSIVE OffsetsText(_)
OffsetsText(kinds) ==
    IF kinds = <<>> THEN <<>> ELSE OffsetText(Head(kinds)) \o OffsetsText(Tail(kinds))

BaseKinds == {"none", "lines"}

BaseText(kind) ==
    IF kind = "none" THEN <<>> ELSE <<"x", "=", "2", NL, "y", "=", "-2", NL>>

BaseXY(kind) == IF kind = "none" THEN <<0, 0>> ELSE <<2, -2>>

RewardKinds == {"none", "flat", "nested", "event"}

(* the text between the braces of the completion_reward sub-block *)
RewardBody(kind) ==
    CASE kind = "flat" -> <<"add_political_power", "=", "100">>
      [] kind = "nested" -> <<"add_ideas", "=", "{", "idea", "=", "X", "}", NL,
                              "add_stability", "=", "1">>
      [] kind = "event" -> <<"add_ideas", "=", "{", "idea", "=", "X", "}", NL,
                             "country_event", "=", "{", NL, "id", "=", "E", NL, "}">>

RewardSubBlock(kind) ==
    IF kind = "none" THEN <<>>
    ELSE <<"completion_reward", "=", "{", NL>> \o RewardBody(kind) \o <<NL, "}", NL>>

BlockCases == [base : BaseKinds, offsets : OffsetLists, reward : RewardKinds]

(* the file that holds the one focus block A of the case c *)
BlockFile(c) ==
    <<"focus", "=", "{", NL, "id", "=", "A", NL>>
    \o BaseText(c.base) \o OffsetsText(c.offsets) \o RewardSubBlock(c.reward)
    \o <<"}", NL>>

(* a complete focus block that states its id only *)
GoodBlock(id) == <<"focus", "=", "{", NL, "id", "=", id, NL, "}", NL>>

RECURSIVE GoodBlocks(_)
GoodBlocks(ids) ==
    IF ids = <<>> THEN <<>> ELSE GoodBlock(Head(ids)) \o GoodBlocks(Tail(ids))

Prefixes == {<<>>, <<"A">>, <<"A", "B">>, <<"B", "A">>}

TailKinds == {"none", "open", "inner_closed", "swallows"}

(* what follows the complete blocks: nothing, or a focus block C whose     *)
(* brace is never closed (with a closed sub-block, or with a complete      *)
(* block after it)                                                         *)
TailText(kind) ==
    CASE kind = "none" -> <<>>
      [] kind = "open" -> <<"focus", "=", "{", NL, "id", "=", "C", NL>>
      [] kind = "inner_closed" -> <<"focus", "=", "{", NL, "id", "=", "C", NL,
                                    "completion_reward", "=", "{", NL, "}", NL>>
      [] kind = "swallows" -> <<"focus", "=", "{", NL, "id", "=", "C", NL>> \o GoodBlock("B")

BrokenCases == [prefix : Prefixes, tail : TailKinds, wrapped : BOOLEAN]

(* wrapped: the blocks stand in a focus_tree block; a file with an open    *)
(* block C is cut off there, so the focus_tree block is not closed either  *)
BrokenFile(c) ==
    (IF c.wrapped THEN <<"focus_tree", "=", "{", NL>> ELSE <<>>)
    \o GoodBlocks(c.prefix) \o TailText(c.tail)
    \o (IF c.wrapped /\ c.tail = "none" THEN <<"}", NL>> ELSE <<>>)

(* files of two or three complete blocks that may state the same id: a     *)
(* block states every field ("full"), its id only ("bare"), or a cost and  *)
(* no id ("anonymous")                                                     *)
DupKinds == {"full", "bare", "anonymous"}

DupIds == {"A", "B"}

DupBlock(b) ==
    CASE b.kind = "bare" -> GoodBlock(b.id)
      [] b.kind = "anonymous" -> <<"focus", "=", "{", NL, "cost", "=", "3", NL, "}", NL>>
      [] b.kind = "full" ->
            <<"focus", "=", "{", NL, "id", "=", b.id, NL, "icon", "=", "GFX_goal", NL,
              "cost", "=", "5", NL, "x", "=", "2", NL, "y", "=", "-2", NL,
              "relative_position_id", "=", "C", NL,
              "prerequisite", "=", "{", "focus", "=", "C", "}", NL,
              "offset", "=", "{", "x", "=", "1", "y", "=", "-1", "}", NL,
              "completion_reward", "=", "{", NL, "add_political_power", "=", "100", NL,
              "}", NL, "}", NL>>

(* the entry a block of the kind states, with the defaults for what it     *)
(* leaves out                                                              *)
DupEntry(b) ==
    IF b.kind = "full"
    THEN [key |-> b.id, id |-> b.id, icon |-> "GFX_goal", prerequisite |-> <<"C">>,
          relative_position_id |-> "C", cost |-> 5, x |-> 3, y |-> -3,
          completion_reward |-> <<"{", NL, "add_political_power", "=", "100", NL, "}">>,
          abs_x |-> 0, abs_y |-> 0]
    ELSE [key |-> b.id, id |-> b.id, icon |-> "GFX_focus_generic_question_mark",
          prerequisite |-> <<>>, relative_position_id |-> None, cost |-> 10,
          x |-> 0, y |-> 0, completion_reward |-> <<"{", "}">>,
          abs_x |-> 0, abs_y |-> 0]

DupBlocks == [id : DupIds, kind : DupKinds]

DupCases == [1..2 -> DupBlocks] \cup [1..3 -> DupBlocks]

RECURSIVE DupFile(_)
DupFile(c) == IF c = <<>> THEN <<>> ELSE DupBlock(Head(c)) \o DupFile(Tail(c))

ParseFiles ==
    {BlockFile(c) : c \in BlockCases} \cup {BrokenFile(c) : c \in BrokenCases}
    \cup {DupFile(c) : c \in DupCases}

InitParse ==
    /\ focus_nodes = <<>>
    /\ selected_node_id = None
    /\ is_dirty = FALSE
    /\ editors = <<>>
    /\ txt_file \in ParseFiles
    /\ exported_nodes = <<>>
    /\ last_op = NoOp
    /\ last_calc = NoCalc
    /\ steps = 0
    /\ json_file = NoJson
    /\ running = TRUE
    /\ ext = NoMonitoring

(* the file is the one the import is pointed at *)
NextParse ==
    UNCHANGED <<steps, json_file, running, ext>> /\ ImportHoi4Txt("exported", TRUE)

SpecParse == InitParse /\ [][NextParse]_vars

----------------------------------------------------------------------------
(* Properties of the parser, checked under SpecParse *)

Imported == last_op.name \in {"import", "import_nothing"}

(* C13: when the brace of a top-level focus block has no match, the        *)
(* warning is shown and the parse returns the entries of the complete      *)
(* blocks before that block, in their order and as those blocks state      *)
(* them; the open block and whatever follows it give no entry.             *)
C13_PartialResults ==
    \A c \in BrokenCases :
        (c.tail # "none" /\ txt_file = BrokenFile(c) /\ Imported) =>
            /\ last_op.warning
            /\ [i \in DOMAIN focus_nodes |-> focus_nodes[i].key] = c.prefix
            /\ Stored(focus_nodes) = Stored(ScanHoi4Txt(GoodBlocks(c.prefix)).nodes)
            /\ \A i \in DOMAIN focus_nodes :
                  StoredOf(focus_nodes[i]) =
                      StoredOf(NodeOfData([BlockDefaults EXCEPT !.id = c.prefix[i]]))

(* the import of a file with two complete blocks B, A and then a block C   *)
(* that is never closed and has a complete block after its brace           *)
C13_Witness ==
    /\ last_op.name = "import"
    /\ last_op.warning
    /\ txt_file = BrokenFile([prefix |-> <<"B", "A">>, tail |-> "swallows", wrapped |-> TRUE])
    /\ Len(focus_nodes) = 2

(* the blocks of the case that state the id, by their place in the file *)
BlocksOf(c, id) == {j \in DOMAIN c : c[j].id = id /\ c[j].kind # "anonymous"}

(* C21: of several focus blocks with one id the document holds one entry,  *)
(* every field of which is what the last of them in the text states (the   *)
(* default where it states none, nothing of an earlier block), and the     *)
(* document has as many entries as the blocks with an id have distinct ids. *)
C21_DuplicateOverwrite ==
    \A c \in DupCases :
        (txt_file = DupFile(c) /\ Imported) =>
            /\ Keys(focus_nodes) = {id \in DupIds : BlocksOf(c, id) # {}}
            /\ Len(focus_nodes) = Cardinality({id \in DupIds : BlocksOf(c, id) # {}})
            /\ \A i \in DOMAIN focus_nodes :
                  /\ focus_nodes[i].id = focus_nodes[i].key
                  /\ StoredOf(focus_nodes[i]) =
                         DupEntry(c[MaxOf(BlocksOf(c, focus_nodes[i].key))])

(* the import of a file whose blocks are A with every field, B, and A with *)
(* its id only: A is in the first place and holds the defaults             *)
C21_Witness ==
    /\ last_op.name = "import"
    /\ txt_file = DupFile(<<[id |-> "A", kind |-> "full"], [id |-> "B", kind |-> "bare"],
                            [id |-> "A", kind |-> "bare"]>>)
    /\ Len(focus_nodes) = 2
    /\ focus_nodes[1].key = "A"
    /\ focus_nodes[1].cost = DefaultCost
    /\ focus_nodes[1].prerequisite = <<>>

(* the x, y the first offset sub-block of the case adds *)
FirstOffset(c) == IF c.offsets = <<>> THEN <<0, 0>> ELSE OffsetXY(c.offsets[1])

(* C19: a completion_reward body with nested braces is stored whole, up to *)
(* the brace that matches the sub-block's opening brace, and none of it is *)
(* read as a field or a prerequisite of the entry.                         *)
C19_NestedReward ==
    \A c \in BlockCases :
        (c.reward \in {"nested", "event"} /\ txt_file = BlockFile(c) /\ Imported) =>
            /\ last_op.name = "import"
            /\ Len(focus_nodes) = 1
            /\ focus_nodes[1].completion_reward =
                   <<"{", NL>> \o RewardBody(c.reward) \o <<NL, "}">>
            /\ focus_nodes[1].id = "A"
            /\ focus_nodes[1].icon = BlockDefaults.icon
            /\ focus_nodes[1].cost = DefaultCost
            /\ focus_nodes[1].relative_position_id = None
            /\ focus_nodes[1].prerequisite = <<>>
            /\ Len(c.offsets) <= 1 =>
                  /\ focus_nodes[1].x = BaseXY(c.base)[1] + FirstOffset(c)[1]
                  /\ focus_nodes[1].y = BaseXY(c.base)[2] + FirstOffset(c)[2]

(* C20: the x of a parsed entry is the x its block states (0 without one)  *)
(* plus the x of the first offset sub-block (0 without one, or without an  *)
(* x in it), and the same for y; an offset sub-block after the first adds  *)
(* nothing and changes nothing.                                            *)
C20_OffsetHandling ==
    \A c \in BlockCases :
        (txt_file = BlockFile(c) /\ Imported) =>
            /\ last_op.name = "import"
            /\ Len(focus_nodes) = 1
            /\ focus_nodes[1].x = BaseXY(c.base)[1] + FirstOffset(c)[1]
            /\ focus_nodes[1].y = BaseXY(c.base)[2] + FirstOffset(c)[2]


----------------------------------------------------------------------------
(* Properties of the serializer, checked under Spec on the file the export *)
(* handler wrote                                                           *)

(* the places of the text where a focus block begins *)
BlockStarts(text) ==
    SelectSeq(Idx(text),
              LAMBDA i : /\ i + 6 <= Len(text)
                         /\ SubSeq(text, i, i + 5) = <<"focus", "=", "{", NL, "id", "=">>)

(* the ids of the focus blocks of the text, in text order *)
EmittedIds(text) == [k \in DOMAIN BlockStarts(text) |-> text[BlockStarts(text)[k] + 6]]

(* C22: the exported text holds one focus block per entry of the document, *)
(* and of two blocks the one written first does not have the greater       *)
(* (y, x): the smaller y, or with equal y the smaller x, comes first; an   *)
(* empty document gives no script, and nothing is written.                 *)
C22_SerializationOrder ==
    /\ last_op.name = "export" =>
          /\ exported_nodes # <<>>
          /\ txt_file = GenerateScriptString(exported_nodes)
          /\ Len(EmittedIds(txt_file)) = Len(exported_nodes)
          /\ Range(EmittedIds(txt_file)) = {exported_nodes[i].id : i \in DOMAIN exported_nodes}
          /\ \A j, k \in DOMAIN EmittedIds(txt_file) :
                j < k =>
                    \A a, b \in DOMAIN exported_nodes :
                        (/\ exported_nodes[a].id = EmittedIds(txt_file)[j]
                         /\ exported_nodes[b].id = EmittedIds(txt_file)[k]) =>
                            ~KeyLess(exported_nodes[b], exported_nodes[a])
    /\ (last_op.name \in {"export", "export_nothing"} /\ focus_nodes = <<>>) =>
          /\ last_op.name = "export_nothing"
          /\ GenerateScriptString(focus_nodes) = NoFile

(* an export of a document whose second entry has a smaller (y, x) than    *)
(* its first, so that the text order is not the dictionary order           *)
C22_Witness ==
    /\ last_op.name = "export"
    /\ Len(exported_nodes) >= 2
    /\ KeyLess(exported_nodes[2], exported_nodes[1])
    /\ EmittedIds(txt_file)[1] # exported_nodes[1].id


(* the text of the k-th focus block: from where it begins to where the     *)
(* next one begins, or to the end of the text                              *)
BlockText(text, k) ==
    SubSeq(text, BlockStarts(text)[k],
           IF k < Len(BlockStarts(text)) THEN BlockStarts(text)[k + 1] - 1 ELSE Len(text))

(* the places of the token in the text *)
PlacesOf(text, tok) == {i \in DOMAIN text : text[i] = tok}

(* the text has the tokens toks from place i on *)
HasAt(text, i, toks) ==
    /\ i + Len(toks) - 1 <= Len(text)
    /\ SubSeq(text, i, i + Len(toks) - 1) = toks

(* the block holds the prerequisite list in the form the length asks for *)
PrerequisiteForm(block, prereq) ==
    /\ Cardinality(PlacesOf(block, "prerequisite")) = IF prereq = <<>> THEN 0 ELSE 1
    /\ Cardinality(PlacesOf(block, "focus")) = 1 + Len(prereq)
    /\ \A p \in PlacesOf(block, "prerequisite") :
          IF Len(prereq) = 1
          THEN HasAt(block, p, <<"prerequisite", "=", "{", "focus", "=", prereq[1], "}", NL>>)
          ELSE /\ HasAt(block, p, <<"prerequisite", "=", "{", NL>>)
               /\ \A j \in DOMAIN prereq :
                     HasAt(block, p + 4 * j, <<"focus", "=", prereq[j], NL>>)
               /\ HasAt(block, p + 4 * Len(prereq) + 4, <<"}", NL>>)

(* the block holds the relative_position_id line when the entry has one *)
ReferenceForm(block, ref) ==
    /\ Cardinality(PlacesOf(block, "relative_position_id")) = IF Falsy(ref) THEN 0 ELSE 1
    /\ \A p \in PlacesOf(block, "relative_position_id") :
          HasAt(block, p - 1, <<NL, "relative_position_id", "=", ref, NL>>)

(* C23: in the exported text the block of an entry has no prerequisite     *)
(* sub-block when the list is empty, the one-line `prerequisite = { focus  *)
(* = X }` when it holds one reference, and otherwise one sub-block with    *)
(* one `focus = id` line per stored reference, in the stored order and     *)
(* whether or not an entry has that id; the relative_position_id line is   *)
(* there exactly when the entry has a relative_position_id.                *)
C23_PrerequisiteForm ==
    last_op.name = "export" =>
        /\ Len(BlockStarts(txt_file)) = Len(exported_nodes)
        /\ \A k \in DOMAIN BlockStarts(txt_file) :
              \A i \in DOMAIN exported_nodes :
                  exported_nodes[i].id = EmittedIds(txt_file)[k] =>
                      /\ PrerequisiteForm(BlockText(txt_file, k), exported_nodes[i].prerequisite)
                      /\ ReferenceForm(BlockText(txt_file, k),
                                       exported_nodes[i].relative_position_id)

(* an export of a document with an entry of two references, one of them    *)
(* dangling, positioned relative to a missing entry, and an entry of one   *)
(* reference                                                               *)
C23_Witness ==
    /\ last_op.name = "export"
    /\ \E i, j \in DOMAIN exported_nodes :
          /\ exported_nodes[i].prerequisite = <<"C", "B">>
          /\ exported_nodes[i].relative_position_id = "C"
          /\ "C" \notin Keys(exported_nodes)
          /\ Len(exported_nodes[j].prerequisite) = 1


----------------------------------------------------------------------------
(* Invariants of the document, checked under Spec *)

(* C24: after any sequence of imports, adds, edits, renames and deletes,   *)
(* every key of the document maps to an entry whose id is that key; no two *)
(* entries have one key, so the ids are distinct and there are as many     *)
(* entries as ids.                                                         *)
C24_KeyIdAgreement ==
    /\ \A i \in DOMAIN focus_nodes : focus_nodes[i].id = focus_nodes[i].key
    /\ \A i, j \in DOMAIN focus_nodes :
          focus_nodes[i].key = focus_nodes[j].key => i = j
    /\ Cardinality({focus_nodes[i].id : i \in DOMAIN focus_nodes}) = Len(focus_nodes)

(* a rename was applied in a document of two entries or more *)
C24_Witness ==
    /\ last_op.name = "save"
    /\ last_op.applied.name = "rename"
    /\ Len(focus_nodes) >= 2
    /\ is_dirty


----------------------------------------------------------------------------
(* Properties of the application with its file handlers, checked under     *)
(* SpecFile                                                                *)

(* C25: after any sequence of handlers selected_node_id is None or a key   *)
(* of the document, so the arrow-key, edit and delete handlers never look  *)
(* up a key that is missing.                                               *)
C25_SelectionValid ==
    selected_node_id = None \/ selected_node_id \in Keys(focus_nodes)


----------------------------------------------------------------------------
(* Properties of the editor's result, checked under Spec *)

(* C27: an edit through the editor, with or without a rename or a new      *)
(* relative_position_id, leaves the icon of the entry as it was, so the    *)
(* icon read from an imported script is the one an export after the edit   *)
(* writes in the entry's block.                                            *)
C27_IconPreserved ==
    [][(/\ OneResultApplied
        /\ last_op'.name = "save"
        /\ last_op'.applied.name \in {"edit", "rename"}
        /\ last_op'.applied.old_id = last_op'.original_id) =>
           /\ Get(focus_nodes', last_op'.applied.new_id).icon =
                  Get(focus_nodes, last_op'.applied.old_id).icon
           /\ HasAt(ToHoi4Format(Get(focus_nodes', last_op'.applied.new_id)), 9,
                    <<"icon", "=", Get(focus_nodes, last_op'.applied.old_id).icon, NL>>)]_vars


----------------------------------------------------------------------------
(* Properties of the unsaved-changes flag and of the exit, checked under   *)
(* SpecFile                                                                *)

(* the last handler saved, opened, cleared or imported the document *)
CleanOp(op) ==
    \/ op.name \in {"open", "new", "import"}
    \/ op.name = "save_file" /\ op.outcome = "saved"
    \/ op.name = "on_closing" /\ op.asked /\ op.response = "yes" /\ op.outcome = "saved"

(* the last handler was an add, an edit, a delete or an arrow key *)
EditOp(op) == op.name \in {"save", "cancel", "delete", "move"}

(* C28: is_dirty is true whenever an add, an edit, a delete or an arrow    *)
(* key has changed the document since the last successful save, open, new  *)
(* or import: such a handler that changes the stored document sets it, and *)
(* only a successful save, open, new or import clears it; it is false      *)
(* right after one of those; a cancelled or failed save and an export      *)
(* leave it as it is.                                                      *)
C28_DirtyTracksChanges ==
    [][/\ (EditOp(last_op') /\ Stored(focus_nodes') # Stored(focus_nodes)) => is_dirty'
       /\ (is_dirty /\ ~is_dirty') => CleanOp(last_op')
       /\ CleanOp(last_op') => ~is_dirty'
       /\ (\/ last_op'.name = "save_file" /\ last_op'.outcome # "saved"
           \/ last_op'.name \in {"export", "export_nothing", "export_localization",
                                 "export_localization_nothing"}) =>
              is_dirty' = is_dirty]_vars


(* C29: with unsaved changes the application ends only from on_closing,    *)
(* after the question was asked and answered with "no" or answered with    *)
(* "yes" and the save succeeded; an answer "cancel", or a save that is     *)
(* cancelled or fails, leaves the application running and the document     *)
(* and the flag as they were.                                              *)
C29_NoSilentLoss ==
    [][/\ (is_dirty /\ running /\ ~running') =>
              /\ last_op'.name = "on_closing"
              /\ last_op'.asked
              /\ \/ last_op'.response = "no"
                 \/ last_op'.response = "yes" /\ last_op'.outcome = "saved"
       /\ (/\ last_op'.name = "on_closing"
           /\ last_op'.asked
           /\ \/ last_op'.response = "cancel"
              \/ last_op'.response = "yes" /\ last_op'.outcome # "saved") =>
              /\ running'
              /\ focus_nodes' = focus_nodes
              /\ is_dirty' = is_dirty]_vars

----------------------------------------------------------------------------
(* Properties of the external-editor monitoring, checked under SpecPoll *)

(* C30: while the editor window is open at most one poll callback is       *)
(* scheduled, whatever was clicked, polled, modified or removed; once the  *)
(* window is closed (save, cancel or the close button) no poll callback is *)
(* scheduled, no temp file is tracked, and no temp file the window created *)
(* is on disk.                                                             *)
C30_PollingCleanedUp ==
    /\ WindowOpen => Cardinality(ext.timers) <= 1
    /\ ~WindowOpen =>
          /\ ext.timers = {}
          /\ ext.temp_reward_filepath = 0
          /\ \A f \in DOMAIN ext.disk : ext.disk[f].mtime = 0

====
